---- MODULE Spec2Model ----
(***************************************************************************)
(* StructuredPrefill (src/index.js): the runtime session of the extension  *)
(* as a state machine.  The state is the module-level runtimeState object, *)
(* the host's chat array and message DOM, and the browser's event loop     *)
(* (microtasks, animation-frame callbacks, timers, one suspended async     *)
(* handler).  Every event handler of index.js is one action.               *)
(*                                                                         *)
(* Texts are sequences of one-character strings; characters outside ASCII  *)
(* are written by name ("LDQ" is U+201C, "RDQ" is U+201D).                  *)
(*                                                                         *)
(* Not modelled: onMessageUpdated (src/index.js:809), which edits only a   *)
(* message's text and metadata and no field of runtimeState; the settings  *)
(* panel.  The templates of the runs have no [[...]] slots besides [[pg]], *)
(* so the strippers work by their literal prefixes and the compiled        *)
(* patterns are kept but never matched.                                    *)
(*                                                                         *)
(* The decoder, the newline encoding, the continue reconciler and the      *)
(* builders of the JSON schema pattern are also applied on their own, to   *)
(* inputs drawn from bounded sets (the variable call holds the input and   *)
(* the result).  The patterns are built character by character as the code *)
(* concatenates them, and matched by RegExp and Accepts, which are written *)
(* from the pattern syntax.                                                *)
(***************************************************************************)
EXTENDS Integers, Sequences, FiniteSets, TLC

(***************************************************************************)
(* Strings                                                                 *)
(***************************************************************************)
\* A text is a sequence of characters; null is a value no text equals.
Null == <<"#null">>
IsString(x) == x # Null

Rep(p, n) == [i \in 1..n |-> p[((i - 1) % Len(p)) + 1]]

Slice(s, from) == IF from >= Len(s) THEN << >> ELSE SubSeq(s, from + 1, Len(s))

StartsWith(s, p) == Len(p) <= Len(s) /\ SubSeq(s, 1, Len(p)) = p

StartsWithAt(s, p, i) == i + Len(p) - 1 <= Len(s) /\ SubSeq(s, i, i + Len(p) - 1) = p

Includes(s, p) == \E i \in 1..(Len(s) + 1) : StartsWithAt(s, p, i)

IsWhitespace(ch) == ch \in {" ", "\n", "\r", "\t"}

RECURSIVE TrimStart(_)
TrimStart(s) == IF s # << >> /\ IsWhitespace(Head(s)) THEN TrimStart(Tail(s)) ELSE s

TrimIsEmpty(s) == \A i \in 1..Len(s) : IsWhitespace(s[i])

RECURSIVE SkipWs(_, _)
SkipWs(s, i) == IF i <= Len(s) /\ IsWhitespace(s[i]) THEN SkipWs(s, i + 1) ELSE i

CountOf(s, chars) == Cardinality({i \in 1..Len(s) : s[i] \in chars})

\* src/index.js:349 normalizeNewlines: \r\n and a lone \r both become \n.
RECURSIVE normalizeNewlines(_)
normalizeNewlines(s) ==
    LET Halves(mid) ==
            normalizeNewlines(SubSeq(s, 1, mid))
            \o normalizeNewlines(SubSeq(s, IF s[mid] = "\r" /\ s[mid + 1] = "\n"
                                            THEN mid + 2 ELSE mid + 1, Len(s)))
    IN IF s = << >> THEN << >>
       ELSE IF Len(s) = 1 THEN <<IF s[1] = "\r" THEN "\n" ELSE s[1]>>
       ELSE Halves(Len(s) \div 2)

\* src/index.js:1042 decodeNewlines: split on the token, join with \n.
RECURSIVE decodeNewlines(_, _)
decodeNewlines(text, token) ==
    IF token = << >> \/ text = << >> THEN text
    ELSE IF StartsWith(text, token)
         THEN <<"\n">> \o decodeNewlines(Slice(text, Len(token)), token)
         ELSE <<Head(text)>> \o decodeNewlines(Tail(text), token)

\* src/index.js:1036 encodeNewlines.
RECURSIVE ReplaceNewlines(_, _)
ReplaceNewlines(s, token) ==
    IF s = << >> THEN << >>
    ELSE (IF Head(s) = "\n" THEN token ELSE <<Head(s)>>) \o ReplaceNewlines(Tail(s), token)

encodeNewlines(text, token) ==
    IF token = << >> THEN text ELSE ReplaceNewlines(normalizeNewlines(text), token)

\* src/index.js:1714 straightenCurlyQuotes.
straightenCurlyQuotes(s) ==
    [i \in 1..Len(s) |->
        IF s[i] \in {"LDQ", "RDQ"} THEN "\""
        ELSE IF s[i] \in {"LSQ", "RSQ"} THEN "'" ELSE s[i]]

(***************************************************************************)
(* The streaming decoder                                                   *)
(***************************************************************************)
FieldValue == <<"v", "a", "l", "u", "e">>
FieldPrefix == <<"p", "r", "e", "f", "i", "x">>
FieldContent == <<"c", "o", "n", "t", "e", "n", "t">>

DecimalDigit(n) == <<"0", "1", "2", "3", "4", "5", "6", "7", "8", "9">>[n + 1]

HexDigits == {"0", "1", "2", "3", "4", "5", "6", "7", "8", "9",
              "a", "b", "c", "d", "e", "f", "A", "B", "C", "D", "E", "F"}

\* String.fromCharCode(parseInt(buf, 16)) for the code points the payloads use.
FromCharCode(buf) ==
    CASE buf = <<"0", "0", "2", "2">> -> "\""
      [] buf = <<"0", "0", "4", "1">> -> "A"
      [] buf \in {<<"0", "0", "0", "a">>, <<"0", "0", "0", "A">>} -> "\n"
      [] buf \in {<<"2", "0", "1", "c">>, <<"2", "0", "1", "C">>} -> "LDQ"
      [] buf \in {<<"2", "0", "1", "d">>, <<"2", "0", "1", "D">>} -> "RDQ"
      [] OTHER -> "U+"

\* The escape switch of both extractors (src/index.js:1573 and 1659).
Unescape(ch) ==
    CASE ch = "b" -> "BSP"
      [] ch = "f" -> "\f"
      [] ch = "n" -> "\n"
      [] ch = "r" -> "\r"
      [] ch = "t" -> "\t"
      [] OTHER -> ch

\* The index just after the first match of /"field"\s*:\s*"/, or 0.
FieldOpenAt(raw, field, i) ==
    IF StartsWithAt(raw, <<"\"">> \o field \o <<"\"">>, i)
    THEN LET c == SkipWs(raw, i + Len(field) + 2)
         IN IF c <= Len(raw) /\ raw[c] = ":"
            THEN LET q == SkipWs(raw, c + 1)
                 IN IF q <= Len(raw) /\ raw[q] = "\"" THEN q + 1 ELSE 0
            ELSE 0
    ELSE 0

FieldOpen(raw, field) ==
    LET First(hits) == IF hits = {} THEN 0
                       ELSE FieldOpenAt(raw, field, CHOOSE i \in hits : \A j \in hits : i <= j)
    IN First({i \in 1..Len(raw) : FieldOpenAt(raw, field, i) # 0})

\* As FindNextNonWhitespace, but without skipping the whitespace.
FindNextCharacter(raw, from) ==
    IF from <= Len(raw) THEN raw[from] ELSE ""

\* findNextNonWhitespace of the tolerant extractor (src/index.js:1633).
FindNextNonWhitespace(raw, from) ==
    LET k == SkipWs(raw, from) IN IF k <= Len(raw) THEN raw[k] ELSE ""

\* The scanning loop shared by tryExtractJsonStringField (loose = FALSE,
\* src/index.js:1565-1618) and tryExtractJsonStringFieldLoose (loose = TRUE,
\* src/index.js:1646-1702).
RECURSIVE ScanField(_, _, _, _, _, _, _)
ScanField(raw, i, out, isEscaped, unicodeRemaining, unicodeBuffer, loose) ==
    IF i > Len(raw) THEN out
    ELSE LET ch == raw[i] IN
         IF unicodeRemaining > 0
         THEN LET buf == Append(unicodeBuffer, ch) IN
              IF unicodeRemaining = 1
              THEN ScanField(raw, i + 1,
                             IF \A k \in 1..4 : buf[k] \in HexDigits
                             THEN Append(out, FromCharCode(buf)) ELSE out,
                             FALSE, 0, << >>, loose)
              ELSE ScanField(raw, i + 1, out, FALSE, unicodeRemaining - 1, buf, loose)
         ELSE IF isEscaped
         THEN IF ch = "u"
              THEN ScanField(raw, i + 1, out, FALSE, 4, << >>, loose)
              ELSE ScanField(raw, i + 1, Append(out, Unescape(ch)), FALSE, 0, << >>, loose)
         ELSE IF ch = "\\"
         THEN ScanField(raw, i + 1, out, TRUE, 0, << >>, loose)
         ELSE IF ch = "\""
         THEN IF ~loose \/ FindNextNonWhitespace(raw, i + 1) \in {"}", ","}
              THEN out
              ELSE ScanField(raw, i + 1, Append(out, "\""), FALSE, 0, << >>, loose)
         ELSE ScanField(raw, i + 1, Append(out, ch), FALSE, 0, << >>, loose)

tryExtractJsonStringField(rawText, fieldName) ==
    LET From(start) == IF start = 0 THEN Null
                       ELSE ScanField(rawText, start, << >>, FALSE, 0, << >>, FALSE)
    IN IF rawText = Null \/ rawText = << >> THEN Null ELSE From(FieldOpen(rawText, fieldName))

tryExtractJsonStringFieldLoose(rawText, fieldName) ==
    LET From(start) == IF start = 0 THEN Null
                       ELSE ScanField(rawText, start, << >>, FALSE, 0, << >>, TRUE)
    IN IF rawText = Null \/ rawText = << >> THEN Null ELSE From(FieldOpen(rawText, fieldName))

(***************************************************************************)
(* JSON.parse, for payloads whose values are strings: the result is        *)
(* [ok, object, value, prefix, content], ok = FALSE for a SyntaxError.     *)
(***************************************************************************)
JsonFail == [ok |-> FALSE, object |-> FALSE, value |-> Null, prefix |-> Null, content |-> Null]

JsonControl == {"\n", "\r", "\t", "\f", "BSP"}

\* A JSON string starting after its opening quote at i: [ok, val, next].
RECURSIVE JsonString(_, _, _)
JsonString(raw, i, out) ==
    IF i > Len(raw) THEN [ok |-> FALSE, val |-> << >>, next |-> i]
    ELSE LET ch == raw[i] IN
         IF ch = "\"" THEN [ok |-> TRUE, val |-> out, next |-> i + 1]
         ELSE IF ch \in JsonControl THEN [ok |-> FALSE, val |-> << >>, next |-> i]
         ELSE IF ch = "\\"
         THEN IF i + 1 > Len(raw) THEN [ok |-> FALSE, val |-> << >>, next |-> i]
              ELSE IF raw[i + 1] \in {"\"", "\\", "/", "b", "f", "n", "r", "t"}
              THEN JsonString(raw, i + 2, Append(out, Unescape(raw[i + 1])))
              ELSE IF raw[i + 1] = "u" /\ i + 5 <= Len(raw)
                      /\ \A k \in 2..5 : raw[i + k] \in HexDigits
              THEN JsonString(raw, i + 6, Append(out, FromCharCode(SubSeq(raw, i + 2, i + 5))))
              ELSE [ok |-> FALSE, val |-> << >>, next |-> i]
         ELSE JsonString(raw, i + 1, Append(out, ch))

\* The members of an object, from the first key's opening quote at i.
RECURSIVE JsonMembers(_, _, _)
JsonMembers(raw, i, acc) ==
    LET Rest(v, acc2) ==
            LET End(e) == IF e > Len(raw) THEN JsonFail
                          ELSE IF raw[e] = "}"
                          THEN IF SkipWs(raw, e + 1) > Len(raw) THEN acc2 ELSE JsonFail
                          ELSE IF raw[e] = ","
                          THEN JsonMembers(raw, SkipWs(raw, e + 1), acc2)
                          ELSE JsonFail
            IN End(SkipWs(raw, v.next))
        Member(key, v) ==
            IF ~v.ok THEN JsonFail
            ELSE Rest(v, [acc EXCEPT
                            !.value = IF key.val = FieldValue THEN v.val ELSE @,
                            !.prefix = IF key.val = FieldPrefix THEN v.val ELSE @,
                            !.content = IF key.val = FieldContent THEN v.val ELSE @])
        Value(key, q) ==
            IF q > Len(raw) \/ raw[q] # "\"" THEN JsonFail
            ELSE Member(key, JsonString(raw, q + 1, << >>))
        Colon(key, c) ==
            IF c > Len(raw) \/ raw[c] # ":" THEN JsonFail
            ELSE Value(key, SkipWs(raw, c + 1))
        Key(key) == IF ~key.ok THEN JsonFail ELSE Colon(key, SkipWs(raw, key.next))
    IN IF i > Len(raw) \/ raw[i] # "\"" THEN JsonFail
       ELSE Key(JsonString(raw, i + 1, << >>))

JsonParse(text) ==
    LET obj == [ok |-> TRUE, object |-> TRUE, value |-> Null, prefix |-> Null, content |-> Null]
        Object(m) == IF m <= Len(text) /\ text[m] = "}"
                     THEN IF SkipWs(text, m + 1) > Len(text) THEN obj ELSE JsonFail
                     ELSE JsonMembers(text, m, obj)
        String(v) == IF v.ok /\ SkipWs(text, v.next) > Len(text)
                     THEN [obj EXCEPT !.object = FALSE]
                     ELSE JsonFail
        At(s) == IF s > Len(text) THEN JsonFail
                 ELSE IF text[s] = "{" THEN Object(SkipWs(text, s + 1))
                 ELSE IF text[s] = "\"" THEN String(JsonString(text, s + 1, << >>))
                 ELSE JsonFail
    IN At(SkipWs(text, 1))

(***************************************************************************)
(* The continuation reconciler                                             *)
(***************************************************************************)
UpperLetters == <<"A", "B", "C", "D", "E", "F", "G", "H", "I", "J", "K", "L", "M",
                  "N", "O", "P", "Q", "R", "S", "T", "U", "V", "W", "X", "Y", "Z">>
LowerLetters == <<"a", "b", "c", "d", "e", "f", "g", "h", "i", "j", "k", "l", "m",
                  "n", "o", "p", "q", "r", "s", "t", "u", "v", "w", "x", "y", "z">>

ToLowerCase(ch) ==
    IF \E k \in 1..26 : UpperLetters[k] = ch
    THEN LowerLetters[CHOOSE k \in 1..26 : UpperLetters[k] = ch]
    ELSE ch

CanonChar(ch) ==
    CASE ch = "NBSP" -> " "
      [] ch \in {"LDQ", "RDQ"} -> "\""
      [] ch \in {"LSQ", "RSQ"} -> "'"
      [] ch \in {"HYPHEN", "NBHYPHEN", "FIGDASH", "ENDASH", "EMDASH"} -> "-"
      [] OTHER -> ch

canonicalizeForContinueMatch(text) ==
    LET input == normalizeNewlines(text)
    IN [i \in 1..Len(input) |-> ToLowerCase(CanonChar(input[i]))]

Min2(a, b) == IF a <= b THEN a ELSE b
Min3(a, b, c) == Min2(a, Min2(b, c))
Abs(x) == IF x < 0 THEN -x ELSE x

\* tryTailLen of stripContinuePrefix (src/index.js:961-990); positions are 0-based.
tryTailLen(tailLen, baseCanon, textCanon, normalized) ==
    LET Cut(cut) == IF cut <= Len(normalized) THEN Slice(normalized, cut) ELSE Null
        Best(len, expected, hits) ==
            IF hits = {} THEN Null
            ELSE Cut(len + CHOOSE pos \in hits :
                              \A q \in hits :
                                 \/ Abs(pos - expected) < Abs(q - expected)
                                 \/ Abs(pos - expected) = Abs(q - expected) /\ pos <= q)
        Find(len, needle) ==
            Best(len, Len(baseCanon) - len,
                 {pos \in 0..(Len(textCanon) - len) : StartsWithAt(textCanon, needle, pos + 1)})
        Try(len) == IF len < 20 THEN Null ELSE Find(len, Slice(baseCanon, Len(baseCanon) - len))
    IN Try(Min3(tailLen, Len(baseCanon), Len(textCanon)))

\* The descending loop of stripContinuePrefix (src/index.js:993-997).
RECURSIVE TailLenLoop(_, _, _, _)
TailLenLoop(len, baseCanon, textCanon, normalized) ==
    LET Or(candidate) == IF IsString(candidate) THEN candidate
                         ELSE TailLenLoop(len - 20, baseCanon, textCanon, normalized)
    IN IF len < 40 THEN Null ELSE Or(tryTailLen(len, baseCanon, textCanon, normalized))

RECURSIVE FirstTailLen(_, _, _, _)
FirstTailLen(lens, baseCanon, textCanon, normalized) ==
    LET Or(candidate) == IF IsString(candidate) THEN candidate
                         ELSE FirstTailLen(Tail(lens), baseCanon, textCanon, normalized)
    IN IF lens = << >> THEN Null
       ELSE Or(tryTailLen(Head(lens), baseCanon, textCanon, normalized))

\* src/index.js:903 stripContinuePrefix (cont is runtimeState.continue).
stripContinuePrefix(cont, text) ==
    LET OrWhole(normalized, candidate) ==
            IF IsString(candidate) THEN candidate ELSE normalized
        OrFixed(normalized, baseCanon, textCanon, looped) ==
            IF IsString(looped) THEN looped
            ELSE OrWhole(normalized, FirstTailLen(<<220, 140, 90, 60, 40>>,
                                                  baseCanon, textCanon, normalized))
        Fuzzy(normalized, baseCanon, textCanon) ==
            IF Len(baseCanon) >= 40 /\ StartsWith(textCanon, baseCanon)
            THEN Slice(normalized, Len(baseCanon))
            ELSE OrFixed(normalized, baseCanon, textCanon,
                         TailLenLoop(Min3(520, Len(baseCanon), Len(textCanon)),
                                     baseCanon, textCanon, normalized))
        Strip(normalized, literal, base) ==
            IF literal # << >> /\ StartsWith(normalized, literal)
            THEN Slice(normalized, Len(literal))
            ELSE IF base = << >> THEN normalized
            ELSE Fuzzy(normalized, canonicalizeForContinueMatch(base),
                       canonicalizeForContinueMatch(normalized))
    IN IF ~cont.active \/ text = << >> THEN text
       ELSE Strip(normalizeNewlines(text), cont.stripLiteral, cont.baseText)

\* src/index.js:649 stripContinueOverlapPrefix.
stripContinueOverlapPrefix(cont, text) ==
    LET Strip(normalized, literal) ==
            IF literal # << >> /\ StartsWith(normalized, literal)
            THEN Slice(normalized, Len(literal))
            ELSE normalized
    IN IF ~cont.active \/ text = << >> THEN text
       ELSE Strip(normalizeNewlines(text), cont.overlapStripLiteral)

\* src/index.js:699 stripContinuePmPrefix.
stripContinuePmPrefix(cont, text) ==
    LET Strip(normalized, literal) ==
            IF literal # << >> /\ StartsWith(normalized, literal)
            THEN Slice(normalized, Len(literal))
            ELSE normalized
    IN IF ~cont.active \/ text = << >> THEN text
       ELSE Strip(normalizeNewlines(text), cont.pmStripLiteral)

\* applyContinueJoin of tryUnwrapStructuredOutput (src/index.js:1724-1758).
applyContinueJoin(cont, decodedValue) ==
    LET Fuzzy(s, base, baseCanon, textCanon, probe) ==
            IF Len(s) < Len(base) /\ probe >= 20
               /\ StartsWith(baseCanon, SubSeq(textCanon, 1, probe))
            THEN base
            ELSE IF Len(s) >= Len(base) /\ probe >= 40
                    /\ StartsWith(textCanon, SubSeq(baseCanon, 1, probe))
            THEN s
            ELSE base \o s
        Canon(s, base, baseCanon, textCanon) ==
            Fuzzy(s, base, baseCanon, textCanon, Min3(120, Len(baseCanon), Len(textCanon)))
        Join(s, base, afterOverlap, delta) ==
            IF afterOverlap # s THEN base \o afterOverlap
            ELSE IF delta # s THEN base \o delta
            ELSE Canon(s, base, canonicalizeForContinueMatch(base),
                       canonicalizeForContinueMatch(s))
        After(s) ==
            IF ~cont.active \/ cont.baseText = << >> THEN s
            ELSE Join(s, cont.baseText, stripContinueOverlapPrefix(cont, s),
                      stripContinuePrefix(cont, s))
    IN After(stripContinuePmPrefix(cont, decodedValue))

(***************************************************************************)
(* tryUnwrapStructuredOutput (src/index.js:1720-1818); rs is runtimeState. *)
(***************************************************************************)
Decode(rs, s) == straightenCurlyQuotes(decodeNewlines(s, rs.newlineToken))

Joined(rs, decoded) ==
    IF rs.continue.active THEN applyContinueJoin(rs.continue, decoded) ELSE decoded

OrEmpty(x) == IF IsString(x) THEN x ELSE << >>

\* The tail of the function, after the try/catch: the strict legacy scan.
Picked(rs, value, prefix, content) ==
    IF IsString(value) THEN [kind |-> "value", text |-> Decode(rs, value)]
    ELSE IF IsString(prefix) \/ IsString(content)
    THEN [kind |-> "parts", text |-> Decode(rs, OrEmpty(prefix)) \o Decode(rs, OrEmpty(content))]
    ELSE [kind |-> "none", text |-> << >>]

tryUnwrapStructuredOutput(rs, text) ==
    LET Result(picked) ==
            IF picked.kind = "none" THEN Null
            ELSE IF picked.kind = "parts" /\ picked.text = << >> THEN << >>
            ELSE Joined(rs, picked.text)
        \* after the try/catch: the strict scan for the legacy fields
        OrLegacy(picked) ==
            IF picked.kind # "none" THEN picked
            ELSE Picked(rs, tryExtractJsonStringField(text, FieldValue),
                        tryExtractJsonStringField(text, FieldPrefix),
                        tryExtractJsonStringField(text, FieldContent))
        Parsed(parsed) ==
            IF parsed.ok
            THEN IF parsed.object
                 THEN Picked(rs, parsed.value, parsed.prefix, parsed.content)
                 ELSE [kind |-> "none", text |-> << >>]
            ELSE Picked(rs, tryExtractJsonStringFieldLoose(text, FieldValue),
                        tryExtractJsonStringFieldLoose(text, FieldPrefix),
                        tryExtractJsonStringFieldLoose(text, FieldContent))
    IN IF text = Null \/ text = << >> THEN Null
       ELSE Result(OrLegacy(Parsed(JsonParse(text))))

\* src/index.js:437 getDecodedValueForGuard: no curly-quote step, no join.
getDecodedValueForGuard(rs, rawText) ==
    LET Legacy(legacy) == IF IsString(legacy) THEN decodeNewlines(legacy, rs.newlineToken) ELSE Null
        Parsed(parsed) ==
            IF parsed.ok /\ parsed.object /\ IsString(parsed.value)
            THEN decodeNewlines(parsed.value, rs.newlineToken)
            ELSE Legacy(tryExtractJsonStringField(rawText, FieldValue))
    IN Parsed(JsonParse(rawText))

(***************************************************************************)
(* Template helpers used when a generation request is compiled             *)
(***************************************************************************)
\* The end (exclusive) of a match of /\[\[[^\]]+?\]\]/ starting at i, or 0.
RECURSIVE SlotBodyEnd(_, _)
SlotBodyEnd(s, j) == IF j > Len(s) THEN 0 ELSE IF s[j] = "]" THEN j ELSE SlotBodyEnd(s, j + 1)

SlotEndAt(s, i) ==
    IF StartsWithAt(s, <<"[", "[">>, i)
    THEN LET j == SlotBodyEnd(s, i + 2)
         IN IF j > i + 2 /\ j + 1 <= Len(s) /\ s[j + 1] = "]" THEN j + 2 ELSE 0
    ELSE 0

\* src/index.js:353 prefixHasSlots.
prefixHasSlots(prefix) == \E i \in 1..Len(prefix) : SlotEndAt(prefix, i) # 0

\* The end (exclusive) of a match of /\[\[\s*word\s*\]\]/i starting at i, or 0.
MarkerEndAt(s, i, word) ==
    IF StartsWithAt(s, <<"[", "[">>, i)
    THEN LET a == SkipWs(s, i + 2) IN
         IF a + Len(word) - 1 <= Len(s)
            /\ \A k \in 1..Len(word) : ToLowerCase(s[a + k - 1]) = word[k]
         THEN LET b == SkipWs(s, a + Len(word))
              IN IF StartsWithAt(s, <<"]", "]">>, b) THEN b + 2 ELSE 0
         ELSE 0
    ELSE 0

\* src/index.js:223 templateHasPrefillGenSlot.
templateHasPrefillGenSlot(template) ==
    \E i \in 1..Len(template) : MarkerEndAt(template, i, <<"p", "g">>) # 0

\* template.replace(/\[\[\s*pg\s*\]\]/gi, generated) (src/index.js:2371).
RECURSIVE ReplacePrefillGen(_, _, _)
ReplacePrefillGen(s, i, generated) ==
    IF i > Len(s) THEN << >>
    ELSE LET e == MarkerEndAt(s, i, <<"p", "g">>)
         IN IF e # 0 THEN generated \o ReplacePrefillGen(s, e, generated)
            ELSE <<s[i]>> \o ReplacePrefillGen(s, i + 1, generated)

\* The end (exclusive) of a match of /\[\[\s*sp\s*:[^\]]*\]\]/i starting at i, or 0.
LegacySpEndAt(s, i) ==
    IF StartsWithAt(s, <<"[", "[">>, i)
    THEN LET a == SkipWs(s, i + 2) IN
         IF a + 1 <= Len(s) /\ ToLowerCase(s[a]) = "s" /\ ToLowerCase(s[a + 1]) = "p"
         THEN LET c == SkipWs(s, a + 2) IN
              IF c <= Len(s) /\ s[c] = ":"
              THEN LET j == SlotBodyEnd(s, c + 1)
                   IN IF j # 0 /\ j + 1 <= Len(s) /\ s[j + 1] = "]" THEN j + 2 ELSE 0
              ELSE 0
         ELSE 0
    ELSE 0

\* template.replace(/\[\[\s*sp\s*:[^\]]*\]\]/gi, '') (src/index.js:2379).
RECURSIVE StripLegacySp(_, _)
StripLegacySp(s, i) ==
    IF i > Len(s) THEN << >>
    ELSE LET e == LegacySpEndAt(s, i)
         IN IF e # 0 THEN StripLegacySp(s, e)
            ELSE <<s[i]>> \o StripLegacySp(s, i + 1)

\* src/index.js:1207 curlyQuoteLiteralsOutsideSlots; open is the quote parity.
RECURSIVE CurlyQuote(_, _, _)
CurlyQuote(s, i, open) ==
    IF i > Len(s) THEN << >>
    ELSE LET e == SlotEndAt(s, i)
         IN IF e # 0 THEN SubSeq(s, i, e - 1) \o CurlyQuote(s, e, open)
            ELSE IF s[i] = "\""
            THEN <<IF open THEN "LDQ" ELSE "RDQ">> \o CurlyQuote(s, i + 1, ~open)
            ELSE <<s[i]>> \o CurlyQuote(s, i + 1, open)

curlyQuoteLiteralsOutsideSlots(template) == CurlyQuote(template, 1, TRUE)

\* src/index.js:1015 chooseNewlineToken.
NLToken == <<"<", "N", "L", ">">>
UnicodeFallback == <<"SYMNL">>
Digits(n) == IF n < 10 THEN <<DecimalDigit(n)>> ELSE <<DecimalDigit(n \div 10), DecimalDigit(n % 10)>>

RECURSIVE FirstFreeNL(_, _)
FirstFreeNL(normalized, i) ==
    IF i > 25 THEN Null
    ELSE LET candidate == <<"<", "N", "L">> \o Digits(i) \o <<">">>
         IN IF ~Includes(normalized, candidate) THEN candidate
            ELSE FirstFreeNL(normalized, i + 1)

\* The choice without the unicode fallback.
chooseNewlineTokenAscii(prefix, preferredToken) ==
    LET Alt(normalized, token, alt) ==
            IF IsString(alt) THEN alt ELSE token
        Choose(normalized, token) ==
            IF ~Includes(normalized, token) THEN token
            ELSE Alt(normalized, token, FirstFreeNL(normalized, 2))
        Trimmed(keep) ==
            IF keep = {} THEN << >>
            ELSE SubSeq(preferredToken, CHOOSE a \in keep : \A b \in keep : a <= b,
                        CHOOSE a \in keep : \A b \in keep : b <= a)
        Token(token) ==
            IF token = << >> \/ \E k \in 1..Len(token) : token[k] \in {"\r", "\n"}
            THEN NLToken ELSE token
    IN Choose(normalizeNewlines(prefix),
              Token(Trimmed({k \in 1..Len(preferredToken) : ~IsWhitespace(preferredToken[k])})))

chooseNewlineToken(prefix, preferredToken) ==
    LET Alt(normalized, token, alt) ==
            IF IsString(alt) THEN alt
            ELSE IF ~Includes(normalized, UnicodeFallback) THEN UnicodeFallback
            ELSE token
        Choose(normalized, token) ==
            IF ~Includes(normalized, token) THEN token
            ELSE Alt(normalized, token, FirstFreeNL(normalized, 2))
        Trimmed(keep) ==
            IF keep = {} THEN << >>
            ELSE SubSeq(preferredToken, CHOOSE a \in keep : \A b \in keep : a <= b,
                        CHOOSE a \in keep : \A b \in keep : b <= a)
        Token(token) ==
            IF token = << >> \/ \E k \in 1..Len(token) : token[k] \in {"\r", "\n"}
            THEN NLToken ELSE token
    IN Choose(normalizeNewlines(prefix),
              Token(Trimmed({k \in 1..Len(preferredToken) : ~IsWhitespace(preferredToken[k])})))

\* src/index.js:534 splitHidePrefillTemplate: the part before [[keep]].
hideTemplateOf(prefixTemplate) ==
    LET Cut(normalized, hits) ==
            IF hits = {} THEN normalized
            ELSE SubSeq(normalized, 1, (CHOOSE i \in hits : \A j \in hits : i <= j) - 1)
        Split(normalized) ==
            Cut(normalized,
                {i \in 1..Len(normalized) : MarkerEndAt(normalized, i, <<"k", "e", "e", "p">>) # 0})
    IN Split(normalizeNewlines(prefixTemplate))

\* src/index.js:615 computeContinueOverlapBase.
computeContinueOverlapBase(baseText, maxChars) ==
    LET Last(base) ==
            IF base = << >> \/ maxChars <= 0 THEN << >>
            ELSE Slice(base, IF Len(base) - maxChars > 0 THEN Len(base) - maxChars ELSE 0)
    IN Last(normalizeNewlines(baseText))

(***************************************************************************)
(* The stream guard                                                        *)
(***************************************************************************)
PunctChars == {"\\", ",", ".", ";", ":", "!", "?", "'", "\"", "(", ")", "[", "]",
               "{", "}", "<", ">", "/", "~", "BACKTICK", "|", "_", "-"}
Letters == {UpperLetters[k] : k \in 1..26} \cup {LowerLetters[k] : k \in 1..26}

PaddingMinLen == 120
LongWordLen == 260
LongWordCommas == 40
PunctCommas == 80
RunLen == 250
StallSinceStart == 5000
StallSinceProgress == 15000
StallRawLen == 5000
PaddingSinceStart == 1500
PaddingStreak == 4
PaddingRawLen == 1500

\* src/index.js:452 isSuspiciousPaddingDelta; the ratios are compared as
\* cross-multiplied integers (the delta is never empty past the length test).
isSuspiciousPaddingDelta(s) ==
    LET backslashes == CountOf(s, {"\\"})
        commas == CountOf(s, {","})
        punct == CountOf(s, PunctChars)
    IN IF Len(s) < PaddingMinLen THEN FALSE
       ELSE \/ 4 * backslashes > Len(s)
            \/ commas > PunctCommas /\ 100 * punct > 45 * Len(s)
            \/ 100 * punct > 60 * Len(s)
            \/ /\ CountOf(s, {" "}) = 0
               /\ Len(s) > LongWordLen
               /\ CountOf(s, Letters) > 0
               /\ commas > LongWordCommas
            \/ Len(s) >= RunLen + 1 /\ \A i \in 1..Len(s) : s[i] = s[1]
            \/ \E i \in 1..(Len(s) - RunLen + 1) : \A j \in i..(i + RunLen - 1) : s[j] = "\\"

\* src/index.js:401 resetStreamGuard.
resetStreamGuard(now) ==
    [startedAt |-> now, lastRawLen |-> 0, lastDecodedLen |-> 0, lastProgressAt |-> now,
     suspiciousStreak |-> 0, stopRequested |-> FALSE]

\* As GuardTrack, but with a streak that a suspicious delta does not raise.
GuardTrackUncounted(guard, rawLen, decodedFullText, now) ==
    LET Raw(g1) == IF rawLen > g1.lastRawLen THEN [g1 EXCEPT !.lastRawLen = rawLen] ELSE g1
        Decoded(decodedLen, prevLen) ==
            IF decodedLen # prevLen
            THEN [guard EXCEPT !.lastDecodedLen = decodedLen, !.lastProgressAt = now]
            ELSE guard
    IN Raw(Decoded(Len(decodedFullText), guard.lastDecodedLen))

\* The bookkeeping half of maybeAbortOnStreamLoop (src/index.js:486-507).
GuardTrack(guard, rawLen, decodedFullText, now) ==
    LET Raw(g1) == IF rawLen > g1.lastRawLen THEN [g1 EXCEPT !.lastRawLen = rawLen] ELSE g1
        Decoded(decodedLen, prevLen) ==
            IF decodedLen # prevLen
            THEN [guard EXCEPT
                    !.lastDecodedLen = decodedLen,
                    !.lastProgressAt = now,
                    !.suspiciousStreak =
                        IF decodedLen > prevLen
                        THEN IF isSuspiciousPaddingDelta(Slice(decodedFullText, prevLen))
                             THEN @ + 1
                             ELSE IF @ - 1 > 0 THEN @ - 1 ELSE 0
                        ELSE @]
            ELSE guard
    IN Raw(Decoded(Len(decodedFullText), guard.lastDecodedLen))

\* now - (x || now): a zero timestamp counts as now.
Since(now, x) == IF x = 0 THEN 0 ELSE now - x

\* As StallTrips, but tripping at a raw length of the threshold itself.
StallTripsAtThreshold(guard, rawLen, now) ==
    /\ Since(now, guard.startedAt) > StallSinceStart
    /\ Since(now, guard.lastProgressAt) > StallSinceProgress
    /\ rawLen >= StallRawLen

\* The stall test (src/index.js:512).
StallTrips(guard, rawLen, now) ==
    /\ Since(now, guard.startedAt) > StallSinceStart
    /\ Since(now, guard.lastProgressAt) > StallSinceProgress
    /\ rawLen > StallRawLen

\* As PaddingTrips, but tripping one suspicious delta early.
PaddingTripsEarly(guard, rawLen, now) ==
    /\ Since(now, guard.startedAt) > PaddingSinceStart
    /\ guard.suspiciousStreak >= PaddingStreak - 1
    /\ rawLen > PaddingRawLen

\* The padding-loop test (src/index.js:525).
PaddingTrips(guard, rawLen, now) ==
    /\ Since(now, guard.startedAt) > PaddingSinceStart
    /\ guard.suspiciousStreak >= PaddingStreak
    /\ rawLen > PaddingRawLen

\* As maybeAbortOnStreamLoop, but without the latch on a guard that tripped.
maybeAbortOnStreamLoopUnlatched(active, guard, rawLen, decodedFullText, now) ==
    LET Test(g) ==
            IF StallTrips(g, rawLen, now)
            THEN [guard |-> [g EXCEPT !.stopRequested = TRUE], trip |-> "stall"]
            ELSE IF PaddingTrips(g, rawLen, now)
            THEN [guard |-> [g EXCEPT !.stopRequested = TRUE], trip |-> "padding"]
            ELSE [guard |-> g, trip |-> "none"]
    IN IF ~active THEN [guard |-> guard, trip |-> "none"]
       ELSE Test(GuardTrack(guard, rawLen, decodedFullText, now))

\* src/index.js:478 maybeAbortOnStreamLoop: the guard after the tick and the
\* trip it raised ("none", "stall" or "padding").
maybeAbortOnStreamLoop(active, guard, rawLen, decodedFullText, now) ==
    LET Test(g) ==
            IF StallTrips(g, rawLen, now)
            THEN [guard |-> [g EXCEPT !.stopRequested = TRUE], trip |-> "stall"]
            ELSE IF PaddingTrips(g, rawLen, now)
            THEN [guard |-> [g EXCEPT !.stopRequested = TRUE], trip |-> "padding"]
            ELSE [guard |-> g, trip |-> "none"]
    IN IF ~active \/ guard.stopRequested THEN [guard |-> guard, trip |-> "none"]
       ELSE Test(GuardTrack(guard, rawLen, decodedFullText, now))

(***************************************************************************)
(* The state                                                               *)
(***************************************************************************)
VARIABLES
    runtimeState,   \* the module-level runtimeState object (src/index.js:30)
    settings,       \* extension_settings[extensionName]
    chat,           \* the host's chat array; message id k is chat[k + 1]
    microtasks,     \* queued microtasks: observer callbacks and render passes
    frames,         \* queued requestAnimationFrame callbacks
    timers,         \* pending setTimeout callbacks of touchStopCleanup
    pending,        \* onChatCompletionSettingsReady suspended at its await
    now,            \* Date.now()
    signals,        \* what the guard raised since its last reset
    budget,         \* host events still to come
    history,        \* what the last step did (for stating the properties)
    call            \* a function of index.js called on its own: input and result

vars == <<runtimeState, settings, chat, microtasks, frames, timers, pending, now,
          signals, budget, history, call>>

NoSwipe == -2
NoTimer == 0
NoPending == [waiting |-> FALSE]
NoCall == [fn |-> "none"]

\* src/index.js:369 clearContinueState (and the initial value, src/index.js:38).
ClearedContinue ==
    [active |-> FALSE, messageId |-> -1, baseText |-> << >>, displayBase |-> << >>,
     pmStripLiteral |-> << >>, pmStripRegex |-> Null, overlapText |-> << >>,
     overlapStripLiteral |-> << >>, overlapStripRegex |-> Null,
     stripLiteral |-> << >>, stripRegex |-> Null]

\* src/index.js:30 runtimeState as the module is loaded.
InitialRuntimeState ==
    [active |-> FALSE, lastInjectedAt |-> 0, latestStreamText |-> << >>,
     lastAppliedText |-> << >>, expectedPrefill |-> << >>, newlineToken |-> << >>,
     patternMode |-> "default", knownNames |-> << >>, continue |-> ClearedContinue,
     hidePrefillLiteral |-> << >>, hidePrefillRegex |-> Null,
     streamObserver |-> FALSE, observedMessageId |-> -1, renderQueued |-> FALSE,
     stopCleanupTimer |-> NoTimer, stopping |-> FALSE, stopSessionAt |-> 0,
     trackedSwipeId |-> -1, applyingDom |-> 0, postFrameQueued |-> FALSE,
     streamGuard |-> [startedAt |-> 0, lastRawLen |-> 0, lastDecodedLen |-> 0,
                      lastProgressAt |-> 0, suspiciousStreak |-> 0, stopRequested |-> FALSE]]

NoSignals == [aborts |-> 0, toasts |-> 0, stall |-> 0, padding |-> 0]

\* The world an event handler runs in: it reads and writes all of these.
World ==
    [rs |-> runtimeState, chat |-> chat, microtasks |-> microtasks, frames |-> frames,
     timers |-> timers, signals |-> signals, now |-> now, settings |-> settings,
     h |-> history]

Commit(w) ==
    /\ runtimeState' = w.rs
    /\ chat' = w.chat
    /\ microtasks' = w.microtasks
    /\ frames' = w.frames
    /\ timers' = w.timers
    /\ signals' = w.signals
    /\ history' = w.h
    /\ UNCHANGED <<settings, now, call>>

ValidId(w, id) == id >= 0 /\ id < Len(w.chat)
Msg(w, id) == w.chat[id + 1]
SetMsg(w, id, m) == [w EXCEPT !.chat[id + 1] = m]
IsAssistant(m) == ~m.is_user /\ ~m.is_system

(***************************************************************************)
(* Helpers of the handlers                                                 *)
(***************************************************************************)
\* A childList/characterData mutation under message id: the connected
\* observer's callback is queued as a microtask (once per batch of records).
DomMutated(w, id) ==
    IF w.rs.streamObserver /\ w.rs.observedMessageId = id
       /\ ~\E k \in 1..Len(w.microtasks) : w.microtasks[k].kind = "observer"
    THEN [w EXCEPT !.microtasks = Append(@, [kind |-> "observer", messageId |-> id])]
    ELSE w

\* src/index.js:383 getLastAssistantMessageId.
getLastAssistantMessageId(w) ==
    LET ids == {i \in 0..(Len(w.chat) - 1) : IsAssistant(Msg(w, i))}
    IN IF ids = {} THEN -1 ELSE CHOOSE i \in ids : \A j \in ids : j <= i

\* src/index.js:394 getActiveAssistantMessageIdForStreaming.
getActiveAssistantMessageIdForStreaming(w) ==
    LET Pick(id, last) ==
            IF ValidId(w, id) /\ IsAssistant(Msg(w, id)) THEN id
            ELSE IF last >= 0 THEN last ELSE Len(w.chat) - 1
    IN Pick(IF w.rs.continue.active THEN w.rs.continue.messageId ELSE Len(w.chat) - 1,
            getLastAssistantMessageId(w))

\* src/index.js:357 looksLikeStructuredJsonBlob.
looksLikeStructuredJsonBlob(text) ==
    /\ Includes(text, <<"{">>)
    /\ Includes(text, <<"\"">>)
    /\ \E i \in 1..Len(text) :
          /\ text[i] = "{"
          /\ LET q == SkipWs(text, i + 1) IN
             \E f \in {FieldValue, FieldPrefix, FieldContent} :
                /\ StartsWithAt(text, <<"\"">> \o f \o <<"\"">>, q)
                /\ LET c == SkipWs(text, q + Len(f) + 2) IN c <= Len(text) /\ text[c] = ":"

\* src/index.js:743 maybeHidePrefillForDisplay.
maybeHidePrefillForDisplay(w, text) ==
    LET Strip(normalized, literal) ==
            IF literal # << >> /\ StartsWith(normalized, literal)
            THEN Slice(normalized, Len(literal))
            ELSE normalized
    IN IF ~w.settings.hide_prefill_in_display \/ text = << >> THEN text
       ELSE Strip(normalizeNewlines(text), w.rs.hidePrefillLiteral)

\* src/index.js:851 computeDisplayText.
computeDisplayText(w, fullText) ==
    LET Continued(base, displayBase) ==
            IF base # << >> /\ StartsWith(fullText, base)
            THEN (IF displayBase # << >> THEN displayBase ELSE base) \o Slice(fullText, Len(base))
            ELSE fullText
    IN IF ~w.settings.hide_prefill_in_display \/ fullText = << >> THEN fullText
       ELSE IF w.rs.continue.active
       THEN Continued(w.rs.continue.baseText, w.rs.continue.displayBase)
       ELSE maybeHidePrefillForDisplay(w, fullText)

\* src/index.js:765 storePrefillMetadataForMessage, as both apply functions
\* call it: only outside Continue and for a non-empty expected prefill.
StoreMetadata(w, m) ==
    IF ~w.rs.continue.active /\ w.rs.expectedPrefill # << >> /\ IsAssistant(m)
    THEN [m EXCEPT !.meta = hideTemplateOf(w.rs.expectedPrefill)]
    ELSE m

\* A write of text into message id, recorded for the properties.
NoteWrite(w, id, kind) ==
    [w EXCEPT !.h.wrote = @ \cup {[id |-> id, swipe |-> Msg(w, id).swipe_id, kind |-> kind,
                                    captured |-> w.h.captured]}]

\* The first variant identifier a session captures.
NoteCapture(w, swipe) ==
    IF w.h.captured = -1 /\ swipe # -1 THEN [w EXCEPT !.h.captured = swipe] ELSE w

\* src/index.js:136 schedulePostFrameGuard: one animation-frame callback at a time.
schedulePostFrameGuard(w, messageId) ==
    IF w.rs.postFrameQueued THEN w
    ELSE [w EXCEPT !.rs.postFrameQueued = TRUE,
                   !.frames = Append(@, [messageId |-> messageId])]

\* src/index.js:1916 applyTextToMessageStreaming.  applyingDom is raised and
\* lowered again around the DOM write, inside this one synchronous call.
applyTextToMessageStreaming(w, messageId, newText) ==
    LET Write(locked, m0, displayText) ==
            schedulePostFrameGuard(
                DomMutated(
                    NoteWrite(
                        SetMsg(locked, messageId,
                               [StoreMetadata(locked, [m0 EXCEPT !.mes = newText]) EXCEPT
                                  !.display_text =
                                      IF displayText # newText THEN displayText ELSE Null,
                                  !.swipes = IF m0.swipe_id # NoSwipe
                                             THEN [@ EXCEPT ![m0.swipe_id + 1] = newText] ELSE @,
                                  !.domText = displayText]),
                        messageId, "streaming"),
                    messageId),
                messageId)
        Guarded(locked, m0) ==
            IF locked.rs.trackedSwipeId # -1 /\ m0.swipe_id # NoSwipe
               /\ m0.swipe_id # locked.rs.trackedSwipeId
            THEN locked
            ELSE IF TrimIsEmpty(newText) /\ ~TrimIsEmpty(m0.mes) THEN locked
            ELSE Write(locked, m0, computeDisplayText(locked, newText))
        Apply(m0) ==
            Guarded(IF w.rs.trackedSwipeId = -1 /\ m0.swipe_id # NoSwipe
                    THEN NoteCapture([w EXCEPT !.rs.trackedSwipeId = m0.swipe_id], m0.swipe_id)
                    ELSE w,
                    m0)
    IN IF ~ValidId(w, messageId) THEN w
       ELSE IF Msg(w, messageId).is_user \/ newText = Null THEN w
       ELSE Apply(Msg(w, messageId))

\* The apply storing the stripped text even when nothing is left of it.
applyTextToMessageStripped(w, messageId, newText, forceRerender) ==
    LET Write(m0, displayText, mesText) ==
            DomMutated(
                NoteWrite(
                    SetMsg(w, messageId,
                           [StoreMetadata(w, m0) EXCEPT
                              !.mes = mesText,
                              !.display_text = IF displayText # mesText THEN displayText ELSE Null,
                              !.swipes = IF m0.swipe_id # NoSwipe
                                         THEN [@ EXCEPT ![m0.swipe_id + 1] = mesText] ELSE @,
                              !.domText = IF displayText # mesText THEN displayText ELSE mesText]),
                    messageId, "final"),
                messageId)
        Display(m0, textAfterRegex, displayText, prefillWasStripped) ==
            Write(m0, displayText,
                  IF prefillWasStripped
                  THEN displayText ELSE textAfterRegex)
        Render(m0, textAfterRegex, displayText) ==
            Display(m0, textAfterRegex, displayText,
                    w.settings.hide_prefill_in_display /\ displayText # textAfterRegex)
        Apply(m0) ==
            IF w.rs.trackedSwipeId # -1 /\ m0.swipe_id # NoSwipe
               /\ m0.swipe_id # w.rs.trackedSwipeId
            THEN w
            ELSE IF TrimIsEmpty(newText) /\ ~TrimIsEmpty(m0.mes) THEN w
            ELSE IF ~forceRerender /\ m0.mes = newText THEN w
            ELSE Render(m0, newText, computeDisplayText(w, newText))
    IN IF ~ValidId(w, messageId) THEN w
       ELSE IF Msg(w, messageId).is_user \/ newText = Null THEN w
       ELSE Apply(Msg(w, messageId))

\* src/index.js:1820 applyTextToMessage; getRegexedString (the host's regex
\* scripts) returns its input.
applyTextToMessage(w, messageId, newText, forceRerender) ==
    LET Write(m0, displayText, mesText) ==
            DomMutated(
                NoteWrite(
                    SetMsg(w, messageId,
                           [StoreMetadata(w, m0) EXCEPT
                              !.mes = mesText,
                              !.display_text = IF displayText # mesText THEN displayText ELSE Null,
                              !.swipes = IF m0.swipe_id # NoSwipe
                                         THEN [@ EXCEPT ![m0.swipe_id + 1] = mesText] ELSE @,
                              !.domText = IF displayText # mesText THEN displayText ELSE mesText]),
                    messageId, "final"),
                messageId)
        Display(m0, textAfterRegex, displayText, prefillWasStripped) ==
            Write(m0, displayText,
                  IF prefillWasStripped /\ ~TrimIsEmpty(displayText)
                  THEN displayText ELSE textAfterRegex)
        Render(m0, textAfterRegex, displayText) ==
            Display(m0, textAfterRegex, displayText,
                    w.settings.hide_prefill_in_display /\ displayText # textAfterRegex)
        Apply(m0) ==
            IF w.rs.trackedSwipeId # -1 /\ m0.swipe_id # NoSwipe
               /\ m0.swipe_id # w.rs.trackedSwipeId
            THEN w
            ELSE IF TrimIsEmpty(newText) /\ ~TrimIsEmpty(m0.mes) THEN w
            ELSE IF ~forceRerender /\ m0.mes = newText THEN w
            ELSE Render(m0, newText, computeDisplayText(w, newText))
    IN IF ~ValidId(w, messageId) THEN w
       ELSE IF Msg(w, messageId).is_user \/ newText = Null THEN w
       ELSE Apply(Msg(w, messageId))

\* src/index.js:2006 disconnectStreamObserver; disconnect() drops the
\* observer's undelivered records, so its queued callback never runs.
RECURSIVE DropObserver(_)
DropObserver(q) ==
    IF q = << >> THEN << >>
    ELSE IF Head(q).kind = "observer" THEN DropObserver(Tail(q))
    ELSE <<Head(q)>> \o DropObserver(Tail(q))

disconnectStreamObserver(w) ==
    [w EXCEPT !.rs.streamObserver = FALSE,
              !.rs.observedMessageId = -1,
              !.rs.renderQueued = FALSE,
              !.microtasks = DropObserver(@)]

\* src/index.js:2017 clearStopCleanupTimer.
clearStopCleanupTimer(w) ==
    IF w.rs.stopCleanupTimer # NoTimer
    THEN [w EXCEPT !.timers = {t \in @ : t.id # w.rs.stopCleanupTimer},
                   !.rs.stopCleanupTimer = NoTimer]
    ELSE w

\* src/index.js:2024 getRawCandidateForMessage.
getRawCandidateForMessage(w, messageId) ==
    LET Pick(mes, latest) ==
            IF Includes(mes, <<"\"">> \o FieldValue \o <<"\"">>) THEN mes
            ELSE IF StartsWith(TrimStart(latest), <<"{">>) THEN latest
            ELSE IF mes # << >> THEN mes ELSE latest
    IN Pick(IF ValidId(w, messageId) THEN Msg(w, messageId).mes ELSE << >>,
            w.rs.latestStreamText)

\* src/index.js:2045 scheduleDecodedRender: the part that runs at once.
scheduleDecodedRender(w, messageId) ==
    IF ~w.rs.active \/ w.rs.renderQueued THEN w
    ELSE [w EXCEPT !.rs.renderQueued = TRUE,
                   !.microtasks = Append(@, [kind |-> "render", messageId |-> messageId])]

\* src/index.js:2083 ensureStreamObserver; every chat message has its element.
ensureStreamObserver(w, messageId) ==
    LET Observe(d) ==
            IF ~ValidId(d, messageId) THEN d
            ELSE [d EXCEPT !.rs.observedMessageId = messageId, !.rs.streamObserver = TRUE]
    IN IF ~w.rs.active THEN w
       ELSE IF w.rs.streamObserver /\ w.rs.observedMessageId = messageId THEN w
       ELSE Observe(disconnectStreamObserver(w))

\* The smallest timer id no pending timer and no kept handle uses.
FreshTimerId(w) ==
    LET used == {t.id : t \in w.timers} \cup {w.rs.stopCleanupTimer}
    IN CHOOSE n \in 1..(Cardinality(used) + 1) : n \notin used /\ \A k \in 1..(n - 1) : k \in used

\* As touchStopCleanup, but arming a timer without clearing the one before it.
touchStopCleanupKeepingTimer(w, messageId, sessionAtStop) ==
    LET Set(c, id) ==
            [c EXCEPT !.timers = @ \cup {[id |-> id, messageId |-> messageId,
                                           sessionAtStop |-> sessionAtStop]},
                      !.rs.stopCleanupTimer = id]
        Arm(c) == Set(c, FreshTimerId(c))
    IN IF ~w.rs.stopping \/ w.rs.stopSessionAt # sessionAtStop THEN w
       ELSE Arm(w)

\* src/index.js:2105 touchStopCleanup: the part that runs at once.
touchStopCleanup(w, messageId, sessionAtStop) ==
    LET Set(c, id) ==
            [c EXCEPT !.timers = @ \cup {[id |-> id, messageId |-> messageId,
                                           sessionAtStop |-> sessionAtStop]},
                      !.rs.stopCleanupTimer = id]
        Arm(c) == Set(c, FreshTimerId(c))
    IN IF ~w.rs.stopping \/ w.rs.stopSessionAt # sessionAtStop THEN w
       ELSE Arm(clearStopCleanupTimer(w))

\* The teardown leaving the tracked swipe in place.
TeardownTracking(w, by) ==
    LET Clear(b) ==
            [b EXCEPT !.rs.hidePrefillLiteral = << >>,
                      !.rs.hidePrefillRegex = Null,
                      !.rs.continue = ClearedContinue,
                      !.rs.streamGuard = resetStreamGuard(b.now),
                      !.signals = NoSignals,
                      !.h.teardowns = @ + 1,
                      !.h.tore = by,
                      !.h.captured = -1,
                      !.h.padRun = 0]
    IN Clear(clearStopCleanupTimer(disconnectStreamObserver(
                 [w EXCEPT !.rs.active = FALSE, !.rs.stopping = FALSE])))

\* The teardown every finishing path ends with (src/index.js:2157-2164,
\* 2119-2126, 2133-2140 and, in another order, 2507-2514).
Teardown(w, by) ==
    LET Clear(b) ==
            [b EXCEPT !.rs.hidePrefillLiteral = << >>,
                      !.rs.hidePrefillRegex = Null,
                      !.rs.continue = ClearedContinue,
                      !.rs.streamGuard = resetStreamGuard(b.now),
                      !.signals = NoSignals,
                      !.h.teardowns = @ + 1,
                      !.h.tore = by,
                      !.h.captured = -1,
                      !.h.padRun = 0]
    IN Clear(clearStopCleanupTimer(disconnectStreamObserver(
                 [w EXCEPT !.rs.active = FALSE, !.rs.stopping = FALSE,
                           !.rs.trackedSwipeId = -1])))

\* The callback touchStopCleanup hands to setTimeout (src/index.js:2110-2165).
StopCleanupCallback(w, messageId, sessionAtStop) ==
    LET Apply(textToApply) ==
            IF ~TrimIsEmpty(textToApply)
            THEN Teardown(applyTextToMessage([w EXCEPT !.rs.lastAppliedText = textToApply],
                                             messageId, textToApply, TRUE),
                          "timer")
            ELSE Teardown(w, "timer")
        Unwrapped(unwrapped) ==
            Apply(IF IsString(unwrapped) THEN unwrapped ELSE w.rs.lastAppliedText)
        Stale(message) ==
            message.is_user
            \/ (w.rs.trackedSwipeId # -1 /\ message.swipe_id # w.rs.trackedSwipeId)
    IN IF ~w.rs.active \/ w.rs.stopSessionAt # sessionAtStop THEN w
       ELSE IF ~ValidId(w, messageId) THEN Teardown(w, "timer")
       ELSE IF Stale(Msg(w, messageId)) THEN Teardown(w, "timer")
       ELSE Unwrapped(tryUnwrapStructuredOutput(w.rs, getRawCandidateForMessage(w, messageId)))

(***************************************************************************)
(* Callbacks the event loop runs                                           *)
(***************************************************************************)
\* What a guard trip does after setting stopRequested (src/index.js:514-518,
\* 527-530): a toast, a click on the host's Stop button (tryStopGeneration,
\* src/index.js:422), and a second toast when there is no button to click.
RaiseTrip(w, trip, button) ==
    IF trip = "none" THEN w
    ELSE [w EXCEPT !.signals.toasts = @ + (IF button THEN 1 ELSE 2),
                   !.signals.aborts = @ + (IF button THEN 1 ELSE 0),
                   !.signals.stall = @ + (IF trip = "stall" THEN 1 ELSE 0),
                   !.signals.padding = @ + (IF trip = "padding" THEN 1 ELSE 0)]

\* The tick with the guard remembering the latest raw length, not the longest.
GuardTickOnLatest(w, rawLen, decodedFullText, button) ==
    LET guard == w.rs.streamGuard
        live == w.rs.active /\ ~guard.stopRequested
        Note(r, padded) ==
            RaiseTrip([w EXCEPT
                         !.rs.streamGuard = IF live THEN [r.guard EXCEPT !.lastRawLen = rawLen]
                                            ELSE r.guard,
                         !.h.tick = [live |-> live, rawLen |-> rawLen, trip |-> r.trip],
                         !.h.padRun = IF ~live THEN @ ELSE IF padded THEN @ + 1 ELSE 0],
                      r.trip, button)
        Delta(r, delta) ==
            Note(r, /\ live
                    /\ Len(decodedFullText) > guard.lastDecodedLen
                    /\ Len(delta) = 130
                    /\ \A i \in 1..Len(delta) : delta[i] \in {",", "\\"})
    IN Delta(maybeAbortOnStreamLoop(w.rs.active, guard, rawLen, decodedFullText, w.now),
             Slice(decodedFullText, guard.lastDecodedLen))

\* One call of maybeAbortOnStreamLoop on the world, with what it was given
\* and what it did kept for the properties.
GuardTickOn(w, rawLen, decodedFullText, button) ==
    LET guard == w.rs.streamGuard
        live == w.rs.active /\ ~guard.stopRequested
        Note(r, padded) ==
            RaiseTrip([w EXCEPT
                         !.rs.streamGuard = r.guard,
                         !.h.tick = [live |-> live, rawLen |-> rawLen, trip |-> r.trip],
                         !.h.padRun = IF ~live THEN @ ELSE IF padded THEN @ + 1 ELSE 0],
                      r.trip, button)
        Delta(r, delta) ==
            Note(r, /\ live
                    /\ Len(decodedFullText) > guard.lastDecodedLen
                    /\ Len(delta) = 130
                    /\ \A i \in 1..Len(delta) : delta[i] \in {",", "\\"})
    IN Delta(maybeAbortOnStreamLoop(w.rs.active, guard, rawLen, decodedFullText, w.now),
             Slice(decodedFullText, guard.lastDecodedLen))

\* The microtask scheduleDecodedRender queues (src/index.js:2050-2080).
RenderPass(w0, messageId, button) ==
    LET Apply(guarded, unwrapped) ==
            IF unwrapped = guarded.rs.lastAppliedText
               /\ ~looksLikeStructuredJsonBlob(Msg(guarded, messageId).domText)
            THEN guarded
            ELSE applyTextToMessageStreaming([guarded EXCEPT !.rs.lastAppliedText = unwrapped],
                                             messageId, unwrapped)
        Guard(counted, rawStr, unwrapped, guardDecoded) ==
            Apply(IF IsString(guardDecoded)
                  THEN GuardTickOn(counted, Len(rawStr), guardDecoded, button)
                  ELSE counted,
                  unwrapped)
        Decoded(counted, rawStr, first) ==
            IF ~IsString(first) /\ ~StartsWith(TrimStart(rawStr), <<"{">>) THEN counted
            ELSE Guard(counted, rawStr,
                       IF IsString(first) THEN first ELSE counted.rs.lastAppliedText,
                       getDecodedValueForGuard(counted.rs, rawStr))
        Raw(w, rawStr) ==
            Decoded([w EXCEPT !.h.passes = @ + 1], rawStr, tryUnwrapStructuredOutput(w.rs, rawStr))
        Pass(w) ==
            IF ~w.rs.active \/ messageId # w.rs.observedMessageId THEN w
            ELSE Raw(w, getRawCandidateForMessage(w, messageId))
    IN Pass([w0 EXCEPT !.rs.renderQueued = FALSE])

\* The MutationObserver callback ensureStreamObserver installs
\* (src/index.js:2093-2099).
ObserverCallback(w, messageId) ==
    LET Touch(r) == IF r.rs.stopping THEN touchStopCleanup(r, messageId, r.rs.stopSessionAt) ELSE r
    IN IF w.rs.applyingDom > 0 THEN w ELSE Touch(scheduleDecodedRender(w, messageId))

\* The requestAnimationFrame callback of schedulePostFrameGuard
\* (src/index.js:140-152).
PostFrameCallback(w0, messageId) ==
    LET Check(w) ==
            IF ~w.rs.active \/ messageId # w.rs.observedMessageId THEN w
            ELSE IF looksLikeStructuredJsonBlob(Msg(w, messageId).domText)
            THEN applyTextToMessageStreaming(w, messageId, w.rs.lastAppliedText)
            ELSE w
    IN Check([w0 EXCEPT !.rs.postFrameQueued = FALSE])

(***************************************************************************)
(* Event handlers                                                          *)
(***************************************************************************)
\* src/index.js:2473 scheduleStreamUnwrap (STREAM_TOKEN_RECEIVED).
scheduleStreamUnwrap(w0, rawText) ==
    LET Observe(applied, messageId) ==
            scheduleDecodedRender(ensureStreamObserver(applied, messageId), messageId)
        Apply(w, messageId, unwrapped) ==
            Observe(IF IsString(unwrapped)
                    THEN applyTextToMessageStreaming([w EXCEPT !.rs.lastAppliedText = unwrapped],
                                                     messageId, unwrapped)
                    ELSE IF StartsWith(TrimStart(rawText), <<"{">>)
                    THEN applyTextToMessageStreaming(w, messageId, w.rs.lastAppliedText)
                    ELSE w,
                    messageId)
        Handle(w) ==
            Apply(w, getActiveAssistantMessageIdForStreaming(w),
                  tryUnwrapStructuredOutput(w.rs, rawText))
    IN IF ~w0.settings.enabled \/ ~w0.rs.active THEN w0
       ELSE Handle([w0 EXCEPT !.rs.latestStreamText = rawText])

\* src/index.js:2499 onMessageReceived (MESSAGE_RECEIVED).
onMessageReceived(w, messageId) ==
    LET Apply(unwrapped) ==
            Teardown(applyTextToMessage(
                         IF IsString(unwrapped)
                         THEN [w EXCEPT !.rs.lastAppliedText = unwrapped] ELSE w,
                         messageId,
                         IF IsString(unwrapped) THEN unwrapped
                         ELSE IF ValidId(w, messageId) THEN Msg(w, messageId).mes ELSE << >>,
                         TRUE),
                     "received")
    IN IF ~w.rs.active THEN w
       ELSE Apply(tryUnwrapStructuredOutput(w.rs, getRawCandidateForMessage(w, messageId)))

\* src/index.js:2517 onGenerationStopped (GENERATION_STOPPED).
onGenerationStopped(w0) ==
    LET Touch(observed, messageId) == touchStopCleanup(observed, messageId, observed.rs.stopSessionAt)
        Observe(tracked, messageId) ==
            Touch(scheduleDecodedRender(ensureStreamObserver(tracked, messageId), messageId),
                  messageId)
        Track(w, messageId, swipe) ==
            Observe(IF w.rs.trackedSwipeId = -1
                    THEN NoteCapture([w EXCEPT !.rs.trackedSwipeId = swipe], swipe)
                    ELSE w,
                    messageId)
        Stop(w, messageId) ==
            Track(w, messageId,
                  IF ValidId(w, messageId) /\ Msg(w, messageId).swipe_id # NoSwipe
                  THEN Msg(w, messageId).swipe_id ELSE -1)
    IN IF ~w0.rs.active THEN w0
       ELSE Stop([w0 EXCEPT !.rs.stopping = TRUE, !.rs.stopSessionAt = w0.rs.lastInjectedAt],
                 getActiveAssistantMessageIdForStreaming(w0))

(***************************************************************************)
(* onChatCompletionSettingsReady (src/index.js:2168-2471)                  *)
(***************************************************************************)
\* src/index.js:326 supportsStructuredPrefillForSource.
supportsStructuredPrefillForSource(source) ==
    source \notin {"claude", "ai21", "deepseek", "moonshot", "zai", "siliconflow", "cometapi", ""}

\* src/index.js:1082 getPatternModeForRequest; model names are "claude" (any
\* model id naming claude or anthropic) or something else.
getPatternModeForRequest(source, model) ==
    IF source \in {"claude", "anthropic"} \/ model = "claude" THEN "anthropic" ELSE "default"

IndexOf(s, p) ==
    LET First(hits) == IF hits = {} THEN -1 ELSE CHOOSE i \in hits : \A j \in hits : i <= j
    IN First({i \in 0..(Len(s) - Len(p)) : StartsWithAt(s, p, i + 1)})

\* src/index.js:719 splitContinuePmPrefixFromTail.
splitContinuePmPrefixFromTail(tailText, baseText) ==
    LET none == [pmPrefix |-> << >>, baseFound |-> FALSE]
        Found(tail, idx) == [pmPrefix |-> SubSeq(tail, 1, idx), baseFound |-> TRUE]
        Probe(tail, idx) == IF idx >= 0 THEN Found(tail, idx) ELSE none
        ByProbe(tail, tailCanon, baseCanon, probeLen) ==
            IF probeLen >= 40
            THEN Probe(tail, IndexOf(tailCanon, SubSeq(baseCanon, 1, probeLen)))
            ELSE none
        Canon(tail, tailCanon, baseCanon, idx) ==
            IF idx >= 0 THEN Found(tail, idx)
            ELSE ByProbe(tail, tailCanon, baseCanon, Min2(120, Len(baseCanon)))
        ByCanon(tail, tailCanon, baseCanon) ==
            Canon(tail, tailCanon, baseCanon, IndexOf(tailCanon, baseCanon))
        Exact(tail, base, idx) ==
            IF idx >= 0 THEN Found(tail, idx)
            ELSE ByCanon(tail, canonicalizeForContinueMatch(tail),
                         canonicalizeForContinueMatch(base))
        Split(tail, base) ==
            IF tail = << >> \/ base = << >> THEN none
            ELSE Exact(tail, base, IndexOf(tail, base))
    IN Split(normalizeNewlines(tailText), normalizeNewlines(baseText))

\* The index (0-based) of the last non-system message, or -1 (src/index.js:2213).
RECURSIVE TailIndex(_, _)
TailIndex(messages, i) ==
    IF i >= 1 /\ messages[i].role = "system" THEN TailIndex(messages, i - 1) ELSE i - 1

\* The "Name: " prefix removal (src/index.js:2227-2236).
StripNamePrefix(names, tailContent) ==
    LET Strip(hits) ==
            IF hits = {} THEN tailContent
            ELSE Slice(tailContent,
                       2 + Len(names[CHOOSE a \in hits : \A b \in hits :
                                        \/ Len(names[b]) < Len(names[a])
                                        \/ Len(names[b]) = Len(names[a]) /\ a <= b]))
    IN Strip({k \in 1..Len(names) :
                names[k] # << >> /\ StartsWith(tailContent, names[k] \o <<":", " ">>)})

\* src/index.js:551 buildPrefillStripper; a template with slots would get a
\* compiled pattern, kept here as the template it is compiled from.
buildPrefillStripper(rs, prefixTemplate) ==
    LET Build(hideTemplate) ==
            IF hideTemplate = << >> THEN rs
            ELSE IF ~prefixHasSlots(hideTemplate)
            THEN [rs EXCEPT !.hidePrefillLiteral = hideTemplate, !.hidePrefillRegex = Null]
            ELSE [rs EXCEPT !.hidePrefillRegex = hideTemplate]
    IN Build(hideTemplateOf(prefixTemplate))

\* src/index.js:571 buildContinueStripper.
buildContinueStripper(cont, prefixTemplate) ==
    LET Build(normalized) ==
            IF normalized = << >> THEN cont
            ELSE IF ~prefixHasSlots(normalized)
            THEN [cont EXCEPT !.stripLiteral = normalized, !.stripRegex = Null]
            ELSE [cont EXCEPT !.stripRegex = normalized, !.stripLiteral = << >>]
    IN Build(normalizeNewlines(prefixTemplate))

\* src/index.js:594 buildContinuePmStripper.
buildContinuePmStripper(cont, prefixTemplate) ==
    LET Build(normalized) ==
            IF normalized = << >> THEN cont
            ELSE IF ~prefixHasSlots(normalized)
            THEN [cont EXCEPT !.pmStripLiteral = normalized, !.pmStripRegex = Null]
            ELSE [cont EXCEPT !.pmStripRegex = normalized, !.pmStripLiteral = << >>]
    IN Build(normalizeNewlines(prefixTemplate))

\* src/index.js:623 buildContinueOverlapStripper (ASCII overlaps).
buildContinueOverlapStripper(cont, overlapText) ==
    LET Build(normalized) ==
            IF normalized = << >> THEN cont
            ELSE [cont EXCEPT !.overlapStripLiteral = normalized, !.overlapStripRegex = Null]
    IN Build(normalizeNewlines(overlapText))

\* The four calls every attempt makes before anything else is built
\* (src/index.js:2240-2245); the guard's signals start over with the guard.
ResetForNewGeneration(w) ==
    [w EXCEPT !.rs.streamGuard = resetStreamGuard(w.now),
              !.rs.hidePrefillLiteral = << >>,
              !.rs.hidePrefillRegex = Null,
              !.rs.continue = ClearedContinue,
              !.rs.trackedSwipeId = -1,
              !.signals = NoSignals,
              !.h.padRun = 0]

\* The last lines of the handler: the checks on how the request now ends,
\* then activation (src/index.js:2404-2470).  roles are the roles of the
\* request's messages as the branch before left them.
FinishStart(w, isContinue, roles, schemaPrefix) ==
    LET relabel == isContinue /\ w.rs.patternMode = "anthropic"
        Seed(b, tail) ==
            IF ~IsAssistant(tail) THEN b
            ELSE [(IF tail.swipe_id # NoSwipe
                   THEN NoteCapture([b EXCEPT !.rs.trackedSwipeId = tail.swipe_id], tail.swipe_id)
                   ELSE b)
                  EXCEPT !.rs.lastAppliedText = IF ~TrimIsEmpty(tail.mes) THEN tail.mes ELSE @]
        Activated(b) == IF Len(b.chat) = 0 THEN b ELSE Seed(b, Msg(b, Len(b.chat) - 1))
        Activate(a) ==
            Activated([a EXCEPT !.rs.lastInjectedAt = w.now,
                                !.rs.expectedPrefill = straightenCurlyQuotes(schemaPrefix),
                                !.h.teardowns = 0,
                                !.h.captured = -1,
                                !.h.activated = TRUE])
        Ends(lastRole) ==
            IF roles # << >> /\ ~isContinue /\ lastRole = "assistant" THEN w
            ELSE IF roles # << >> /\ w.rs.patternMode = "anthropic" /\ lastRole # "user" THEN w
            ELSE Activate(clearStopCleanupTimer(
                              [w EXCEPT !.rs.active = TRUE, !.rs.stopping = FALSE,
                                        !.rs.stopSessionAt = 0]))
        Last(n) == Ends(IF roles = << >> THEN "none"
                        ELSE IF relabel /\ roles[n] = "assistant" THEN "user" ELSE roles[n])
        Kept(keep) == Last(CHOOSE k \in keep : \A j \in keep : j <= k)
    IN IF relabel
       THEN Kept({k \in 1..Len(roles) : k = 1 \/ \E j \in k..Len(roles) : roles[j] # "system"})
       ELSE Last(Len(roles))

RemoveAt(seq, i) == SubSeq(seq, 1, i) \o SubSeq(seq, i + 2, Len(seq))
Roles(messages) == [k \in 1..Len(messages) |-> messages[k].role]

\* The normal branch from the replacement of the generator's slot on
\* (src/index.js:2371-2395), then the end of the handler.
NormalBranch(w, messages, tailIndex, prefillTemplate0, generated) ==
    LET Strip(a, schemaPrefix) ==
            FinishStart(IF w.settings.hide_prefill_in_display
                        THEN [a EXCEPT !.rs = buildPrefillStripper(
                                                  a.rs, straightenCurlyQuotes(schemaPrefix))]
                        ELSE a,
                        FALSE, Roles(RemoveAt(messages, tailIndex)), schemaPrefix)
        Token(schemaPrefix) ==
            Strip([w EXCEPT !.rs.newlineToken =
                                chooseNewlineToken(schemaPrefix, w.settings.newline_token)],
                  schemaPrefix)
        Replaced(replaced) == Token(curlyQuoteLiteralsOutsideSlots(StripLegacySp(replaced, 1)))
    IN Replaced(IF templateHasPrefillGenSlot(prefillTemplate0)
                THEN ReplacePrefillGen(prefillTemplate0, 1, generated)
                ELSE prefillTemplate0)

\* The Continue branch (src/index.js:2255-2337), then the end of the handler.
ContinueBranch(w, messages, prefillTemplate) ==
    LET Strippers(cont, baseText, pmPrefix, overlap) ==
            (LET Pm(c) == IF pmPrefix # << >> THEN buildContinuePmStripper(c, pmPrefix) ELSE c
                 Overlap(c) ==
                     Pm(buildContinueOverlapStripper([c EXCEPT !.overlapText = overlap], overlap))
             IN Overlap(buildContinueStripper(cont, baseText)))
        Build(started, baseText, pmPrefix, overlap) ==
            FinishStart(
                [started EXCEPT
                   !.rs.continue = Strippers(@, baseText, pmPrefix, overlap),
                   !.rs.newlineToken =
                       chooseNewlineToken(IF pmPrefix \o overlap # << >>
                                          THEN pmPrefix \o overlap ELSE baseText,
                                          w.settings.newline_token)],
                TRUE, Roles(messages), pmPrefix \o overlap)
        Split(started, baseText, looksLikeBase, split) ==
            IF baseText # << >> /\ prefillTemplate # << >> /\ ~looksLikeBase /\ ~split.baseFound
            THEN [started EXCEPT !.rs.continue = ClearedContinue]
            ELSE Build(started, baseText,
                       IF baseText = << >> THEN << >>
                       ELSE IF split.baseFound THEN split.pmPrefix
                       ELSE IF ~looksLikeBase /\ prefillTemplate # << >> THEN prefillTemplate
                       ELSE << >>,
                       computeContinueOverlapBase(baseText, w.settings.continue_overlap_chars))
        Probe(started, baseText, baseCanon, tailCanon, baseProbe, tailProbe) ==
            Split(started, baseText,
                  /\ baseText # << >>
                  /\ \/ baseProbe # << >> /\ StartsWith(tailCanon, baseProbe)
                     \/ tailProbe # << >> /\ StartsWith(baseCanon, tailProbe),
                  splitContinuePmPrefixFromTail(prefillTemplate, baseText))
        Canon(started, baseText, baseCanon, tailCanon) ==
            Probe(started, baseText, baseCanon, tailCanon,
                  SubSeq(baseCanon, 1, Min2(60, Len(baseCanon))),
                  SubSeq(tailCanon, 1, Min2(60, Len(tailCanon))))
        Start(messageId, baseText, displayBase) ==
            Canon([w EXCEPT !.rs.continue.active = TRUE,
                            !.rs.continue.messageId = messageId,
                            !.rs.continue.baseText = baseText,
                            !.rs.continue.displayBase = displayBase,
                            !.rs.lastAppliedText = baseText],
                  baseText,
                  canonicalizeForContinueMatch(baseText),
                  canonicalizeForContinueMatch(prefillTemplate))
        At(messageId) ==
            Start(messageId,
                  IF messageId >= 0 THEN Msg(w, messageId).mes ELSE << >>,
                  IF messageId >= 0 /\ IsString(Msg(w, messageId).display_text)
                  THEN Msg(w, messageId).display_text ELSE << >>)
    IN At(getLastAssistantMessageId(w))

\* onChatCompletionSettingsReady up to its await (src/index.js:2168-2350):
\* the world it leaves and, when it suspended, what it resumes with.
StartGenerationOn(w, generateData) ==
    LET messages == generateData.messages
        done(x) == [w |-> x, pending |-> NoPending]
        Branch(reset, tailIndex, tailContent) ==
            IF generateData.type = "continue"
            THEN done(ContinueBranch(reset, messages, tailContent))
            ELSE IF templateHasPrefillGenSlot(tailContent) /\ w.settings.prefill_gen_enabled
            THEN [w |-> reset,
                  pending |-> [waiting |-> TRUE, messages |-> messages,
                               tailIndex |-> tailIndex, prefillTemplate |-> tailContent,
                               superseding |-> w.rs.stopping]]
            ELSE done(NormalBranch(reset, messages, tailIndex, tailContent, << >>))
        WithTail(named, tailIndex) ==
            IF tailIndex < 0 THEN done(named)
            ELSE IF messages[tailIndex + 1].role # "assistant" THEN done(named)
            ELSE IF messages[tailIndex + 1].content = << >> THEN done(named)
            ELSE Branch(ResetForNewGeneration(named), tailIndex,
                        StripNamePrefix(generateData.names, messages[tailIndex + 1].content))
    IN IF ~w.settings.enabled THEN done(w)
       ELSE IF ~supportsStructuredPrefillForSource(generateData.chat_completion_source) THEN done(w)
       ELSE IF generateData.json_schema \/ generateData.tools THEN done(w)
       ELSE IF generateData.type \in {"impersonate", "quiet"} THEN done(w)
       ELSE IF messages = << >> THEN done(w)
       ELSE WithTail([w EXCEPT !.rs.patternMode =
                               getPatternModeForRequest(generateData.chat_completion_source,
                                                        generateData.model),
                               !.rs.knownNames = generateData.names],
                     TailIndex(messages, Len(messages)))

\* The handler from its await on, with what the generator returned.
ResumeStartOn(w, p, generated) ==
    NormalBranch(w, p.messages, p.tailIndex, p.prefillTemplate, generated)

(***************************************************************************)
(* The texts, requests and chats the runs are built from                   *)
(***************************************************************************)
Quote == <<"\"">>
Hi == <<"H", "i">>
Ok == <<"o", "k">>
PgTemplate == <<"[", "[", "p", "g", "]", "]">>

\* What a streaming backend has sent so far of {"value":"ok"}.
PayloadStart == <<"{">>
PayloadOpen == <<"{">> \o Quote \o FieldValue \o Quote \o <<":">> \o Quote \o Ok
PayloadDone == PayloadOpen \o Quote \o <<"}">>
Payloads == {PayloadStart, PayloadOpen, PayloadDone}

UserMessage(text) ==
    [is_user |-> TRUE, is_system |-> FALSE, swipe_id |-> NoSwipe, swipes |-> << >>,
     mes |-> text, display_text |-> Null, meta |-> Null, domText |-> text]
AssistantMessage(text) ==
    [is_user |-> FALSE, is_system |-> FALSE, swipe_id |-> 0, swipes |-> <<text>>,
     mes |-> text, display_text |-> Null, meta |-> Null, domText |-> text]

Request(type, messages) ==
    [type |-> type, chat_completion_source |-> "openai", model |-> "gpt", names |-> << >>,
     json_schema |-> FALSE, tools |-> FALSE, messages |-> messages]
Turn(role, content) == [role |-> role, content |-> content]

Requests ==
    {Request("normal", <<Turn("user", <<"q">>), Turn("assistant", Hi)>>),
     Request("normal", <<Turn("user", <<"q">>), Turn("assistant", PgTemplate)>>),
     Request("continue", <<Turn("user", <<"q">>), Turn("assistant", Hi)>>),
     Request("normal", <<Turn("assistant", <<"a">>), Turn("assistant", Hi)>>),
     Request("quiet", <<Turn("user", <<"q">>)>>)}

Generated == {<< >>, Ok}

MaxChat == 3
MaxSwipes == 2
MaxEvents == 4
MaxNow == 2

NoTick == [live |-> FALSE, rawLen |-> 0, trip |-> "none"]

InitialHistory ==
    [wrote |-> {}, captured |-> -1, teardowns |-> 0, tore |-> "no",
     passes |-> 0, tick |-> NoTick, padRun |-> 0, activated |-> FALSE]

Init ==
    /\ runtimeState = InitialRuntimeState
    /\ settings \in {[enabled |-> TRUE, hide_prefill_in_display |-> h, prefill_gen_enabled |-> TRUE,
                       newline_token |-> NLToken, continue_overlap_chars |-> 14] : h \in BOOLEAN}
    /\ chat = <<UserMessage(<<"q">>), AssistantMessage(Hi)>>
    /\ microtasks = << >>
    /\ frames = << >>
    /\ timers = {}
    /\ pending = NoPending
    /\ now = 1
    /\ signals = NoSignals
    /\ budget = MaxEvents
    /\ history = InitialHistory
    /\ call = NoCall

\* The world as a step finds it, with the record of the step before wiped;
\* a new turn of the event loop starts its count of render passes at zero.
Begin(newTurn) ==
    [World EXCEPT !.h.wrote = {}, !.h.tore = "no", !.h.tick = NoTick,
                  !.h.activated = FALSE, !.h.passes = IF newTurn THEN 0 ELSE @]

\* A task of the event loop starts only when the microtask queue is empty.
HostEvent == microtasks = << >> /\ budget > 0

(***************************************************************************)
(* The steps                                                               *)
(***************************************************************************)
\* CHAT_COMPLETION_SETTINGS_READY: the handler runs up to its await or its end.
StartGeneration ==
    /\ HostEvent
    /\ ~pending.waiting
    /\ \E generateData \in Requests :
          LET r == StartGenerationOn(Begin(TRUE), generateData)
          IN Commit(r.w) /\ pending' = r.pending
    /\ budget' = budget - 1

\* The prefill generator answers (or fails, which yields the empty text) and
\* the suspended handler runs to its end.
ResumeStart ==
    /\ microtasks = << >>
    /\ pending.waiting
    /\ \E generated \in Generated :
          Commit(ResumeStartOn(Begin(TRUE), pending, generated))
    /\ pending' = NoPending
    /\ UNCHANGED budget

\* STREAM_TOKEN_RECEIVED with the text accumulated so far.
StreamToken ==
    /\ HostEvent
    /\ \E rawText \in Payloads : Commit(scheduleStreamUnwrap(Begin(TRUE), rawText))
    /\ budget' = budget - 1
    /\ UNCHANGED pending

\* The host's own streaming renderer writes the raw text into the last message.
HostStreamWrite ==
    /\ HostEvent
    /\ Len(chat) > 0 /\ IsAssistant(chat[Len(chat)])
    /\ \E rawText \in Payloads :
          LET w == Begin(TRUE)
              id == Len(chat) - 1
              m == [Msg(w, id) EXCEPT !.mes = rawText, !.domText = rawText]
          IN Commit(DomMutated(SetMsg(w, id, m), id))
    /\ budget' = budget - 1
    /\ UNCHANGED pending

\* The host adds the message a new reply streams into.
HostAppendMessage ==
    /\ HostEvent
    /\ Len(chat) < MaxChat
    /\ Commit([Begin(TRUE) EXCEPT !.chat = Append(@, AssistantMessage(<< >>))])
    /\ budget' = budget - 1
    /\ UNCHANGED pending

\* The user swipes the last message to its other variant.
HostSwipe ==
    /\ HostEvent
    /\ Len(chat) > 0 /\ IsAssistant(chat[Len(chat)])
    /\ LET w == Begin(TRUE)
           id == Len(chat) - 1
           m0 == Msg(w, id)
           to == (m0.swipe_id + 1) % MaxSwipes
           swipes == IF Len(m0.swipes) < to + 1 THEN Append(m0.swipes, << >>) ELSE m0.swipes
           m == [m0 EXCEPT !.swipe_id = to, !.swipes = swipes, !.mes = swipes[to + 1],
                           !.display_text = Null, !.domText = swipes[to + 1]]
       IN Commit(DomMutated(SetMsg(w, id, m), id))
    /\ budget' = budget - 1
    /\ UNCHANGED pending

\* MESSAGE_RECEIVED for the last message.
MessageReceived ==
    /\ HostEvent
    /\ Commit(onMessageReceived(Begin(TRUE), Len(chat) - 1))
    /\ budget' = budget - 1
    /\ UNCHANGED pending

\* GENERATION_STOPPED.
GenerationStopped ==
    /\ HostEvent
    /\ Commit(onGenerationStopped(Begin(TRUE)))
    /\ budget' = budget - 1
    /\ UNCHANGED pending

\* The first queued microtask runs: an observer callback or a render pass.
\* The host's Stop button is there to click, or not.
RunMicrotask ==
    /\ microtasks # << >>
    /\ LET w == [Begin(FALSE) EXCEPT !.microtasks = Tail(@)]
           job == Head(microtasks)
       IN IF job.kind = "observer"
          THEN Commit(ObserverCallback(w, job.messageId))
          ELSE \E button \in BOOLEAN : Commit(RenderPass(w, job.messageId, button))
    /\ UNCHANGED <<pending, budget>>

\* The next animation frame: its first callback runs.
AnimationFrame ==
    /\ microtasks = << >>
    /\ frames # << >>
    /\ Commit(PostFrameCallback([Begin(TRUE) EXCEPT !.frames = Tail(@)],
                                Head(frames).messageId))
    /\ UNCHANGED <<pending, budget>>

\* A stop-cleanup timer expires and its callback runs.
TimerFire ==
    /\ microtasks = << >>
    /\ \E t \in timers :
          Commit(StopCleanupCallback([Begin(TRUE) EXCEPT !.timers = @ \ {t}],
                                     t.messageId, t.sessionAtStop))
    /\ UNCHANGED <<pending, budget>>

\* Time passes.
AdvanceClock(times) ==
    /\ microtasks = << >>
    /\ \E t \in times : t > now /\ now' = t
    /\ history' = Begin(TRUE).h
    /\ UNCHANGED <<runtimeState, settings, chat, microtasks, frames, timers, pending,
                   signals, budget, call>>

Tick == AdvanceClock(1..MaxNow)

Next ==
    \/ StartGeneration
    \/ ResumeStart
    \/ StreamToken
    \/ HostStreamWrite
    \/ HostAppendMessage
    \/ HostSwipe
    \/ MessageReceived
    \/ GenerationStopped
    \/ RunMicrotask
    \/ AnimationFrame
    \/ TimerFire
    \/ Tick

Spec == Init /\ [][Next]_vars

(***************************************************************************)
(* One generation at a time: a generation starts only when none is active, *)
(* streams, and is stopped or finalized.  Queued microtasks run to the end *)
(* of their checkpoint, and an armed timer expires once the event loop is  *)
(* free to run it: weak fairness of RunMicrotask and of TimerFire.  Either *)
(* action, when its guard holds, changes the state (the microtask it runs  *)
(* leaves the queue, the timer that fires leaves the set), so the guards   *)
(* below are the actions' enabling conditions, and the fairness is written *)
(* out with them.                                                          *)
(***************************************************************************)
MicrotaskQueued == microtasks # << >>
TimerDue == microtasks = << >> /\ timers # {}

Fairness ==
    /\ []<>~MicrotaskQueued \/ []<><<RunMicrotask>>_vars
    /\ []<>~TimerDue \/ []<><<TimerFire>>_vars

StopStart ==
    /\ HostEvent
    /\ ~runtimeState.active
    /\ LET generateData == Request("normal", <<Turn("user", <<"q">>), Turn("assistant", Hi)>>)
       IN Commit(StartGenerationOn(Begin(TRUE), generateData).w)
    /\ budget' = budget - 1
    /\ UNCHANGED pending

StopNext ==
    \/ StopStart
    \/ StreamToken
    \/ HostStreamWrite
    \/ MessageReceived
    \/ GenerationStopped
    \/ RunMicrotask
    \/ AnimationFrame
    \/ TimerFire

StopSpec == Init /\ [][StopNext]_vars /\ Fairness

(***************************************************************************)
(* Properties of the session's life cycle                                  *)
(***************************************************************************)
OneCleanupTimer ==
    /\ Cardinality(timers) <= 1
    /\ runtimeState.stopping => \E t \in timers : t.id = runtimeState.stopCleanupTimer
    /\ history.teardowns <= 1

TornDownOnce ==
    ~runtimeState.stopping /\ (history.teardowns = 1 \/ runtimeState.active)

\* C1: after a stop on an active session there is never more than the one
\* pending stop-cleanup timer, whatever further events arrive; the final
\* apply-and-teardown runs at most once per session; and a stopping session
\* is eventually torn down exactly once (or superseded by a new generation).
C1_TeardownExactlyOnce ==
    []OneCleanupTimer /\ (runtimeState.stopping ~> TornDownOnce)

\* The timer has fired on a stopped session: it applied the decoded text and
\* tore the session down, for the first and only time.
C1_Witness ==
    /\ history.tore = "timer"
    /\ history.teardowns = 1
    /\ \E wr \in history.wrote : wr.kind = "final"
    /\ ~runtimeState.active /\ ~runtimeState.stopping /\ timers = {}

\* C2: while a start handler that began during a pending teardown is suspended
\* at its await, after it has reset the session's state, the old teardown's
\* timer callback never tears the session down.
C2_TeardownSuperseded ==
    ~(pending.waiting /\ pending.superseding /\ history.tore = "timer")

\* C3: in the state a new generation is activated in, the latest raw payload
\* is empty, no observer is attached to a message, and the guard's counters
\* are at zero with no trip recorded.
C3_FreshAtActivation ==
    history.activated =>
        /\ runtimeState.latestStreamText = << >>
        /\ ~runtimeState.streamObserver
        /\ runtimeState.observedMessageId = -1
        /\ runtimeState.streamGuard.lastRawLen = 0
        /\ runtimeState.streamGuard.lastDecodedLen = 0
        /\ runtimeState.streamGuard.suspiciousStreak = 0
        /\ ~runtimeState.streamGuard.stopRequested

\* C4: every write to a message made after the session captured its target's
\* variant lands on the captured variant.
C4_WritesOnCapturedVariant ==
    \A wr \in history.wrote : wr.captured # -1 => wr.swipe = wr.captured

\* C5: after a teardown, by message-received or by the stop-cleanup timer, the
\* decoder's fields are back at their initial values.
C5_ClearedAfterTeardown ==
    history.tore # "no" =>
        /\ runtimeState.newlineToken = InitialRuntimeState.newlineToken
        /\ runtimeState.expectedPrefill = InitialRuntimeState.expectedPrefill
        /\ runtimeState.patternMode = InitialRuntimeState.patternMode
        /\ runtimeState.lastAppliedText = InitialRuntimeState.lastAppliedText
        /\ runtimeState.latestStreamText = InitialRuntimeState.latestStreamText
        /\ runtimeState.streamGuard.lastRawLen = 0
        /\ runtimeState.streamGuard.lastDecodedLen = 0
        /\ runtimeState.streamGuard.suspiciousStreak = 0
        /\ runtimeState.continue = ClearedContinue

\* C6: at most one render pass is queued at any time, and at most one pass
\* decodes and reconciles in one turn of the event loop.
C6_OnePassPerTurn ==
    /\ Cardinality({k \in 1..Len(microtasks) : microtasks[k].kind = "render"}) <= 1
    /\ history.passes <= 1

(***************************************************************************)
(* The stream guard on long streams.  A pass over a payload of thousands   *)
(* of characters is the same call of maybeAbortOnStreamLoop as in          *)
(* RenderPass, given the payload's length and its decoded text.            *)
(***************************************************************************)
MaxBlocks == 4
MaxStreak == 5
Padding == <<",", "\\">>
Prose == <<"a", " ">>

\* Decoded texts: blocks of 130 characters of padding, or of prose.
GuardTexts == {Rep(Padding, 130 * n) : n \in 0..MaxBlocks} \cup {Rep(Prose, 130)}
GuardRawLens == {PaddingRawLen, PaddingRawLen + 1, StallRawLen, StallRawLen + 1}
GuardTimes ==
    {1 + d : d \in {PaddingSinceStart, PaddingSinceStart + 1,
                    StallSinceProgress, StallSinceProgress + 1}}

GuardStart ==
    /\ HostEvent
    /\ ~runtimeState.active \/ runtimeState.streamGuard.stopRequested
    /\ LET generateData == Request("normal", <<Turn("user", <<"q">>), Turn("assistant", Hi)>>)
       IN Commit(StartGenerationOn(Begin(TRUE), generateData).w)
    /\ budget' = budget - 1
    /\ UNCHANGED pending

\* A render pass over a long payload reaches its guard tick.
GuardTick ==
    /\ runtimeState.streamGuard.suspiciousStreak < MaxStreak
    /\ \E rawLen \in GuardRawLens, decodedFullText \in GuardTexts, button \in BOOLEAN :
          Commit(GuardTickOn(Begin(TRUE), rawLen, decodedFullText, button))
    /\ UNCHANGED <<pending, budget>>

\* Time passes while a generation streams.
GuardClock == runtimeState.active /\ AdvanceClock(GuardTimes)

GuardNext ==
    \/ GuardStart
    \/ GuardTick
    \/ GuardClock

GuardSpec == Init /\ [][GuardNext]_vars

(***************************************************************************)
(* Properties of the stream guard                                          *)
(***************************************************************************)
Trips == signals.stall + signals.padding

\* C7: a tick of a session whose guard has tripped raises no further abort
\* request or warning, so a session sees at most one trip until its guard is
\* reset; and a tick, tripping or not, leaves active and stopping as they were.
C7_TripsOnce ==
    [][/\ runtimeState.streamGuard.stopRequested /\ history'.tick.rawLen > 0
          => signals' = signals
       /\ history'.tick.rawLen > 0
          => /\ runtimeState'.active = runtimeState.active
             /\ runtimeState'.stopping = runtimeState.stopping
             /\ Trips' <= 1 /\ signals'.aborts <= 1
             /\ Trips' = 1 <=> runtimeState'.streamGuard.stopRequested]_vars

\* Ticks keep arriving at a session whose guard tripped, and raise nothing.
C7_Witness ==
    /\ history.tick.rawLen > 0 /\ ~history.tick.live
    /\ runtimeState.active /\ runtimeState.streamGuard.stopRequested
    /\ Trips = 1

\* C8: a tick of an active session that has not tripped fires the stall trip
\* exactly when more than 5000 ms passed since the start, more than 15000 ms
\* since the decoded length last changed, and the raw length exceeds 5000.
C8_StallTrip ==
    history.tick.live =>
        (history.tick.trip = "stall"
            <=> /\ now - runtimeState.streamGuard.startedAt > 5000
                /\ now - runtimeState.streamGuard.lastProgressAt > 15000
                /\ history.tick.rawLen > 5000)

C8_Witness ==
    history.tick.live /\ history.tick.trip = "stall" /\ signals.stall = 1

\* C9: a tick of an active session that has not tripped, and at which the
\* stall trip does not fire, fires the padding trip exactly when more than
\* 1500 ms passed since the start, the suspicious streak is 4 or more, and
\* the raw length exceeds 1500.
C9_PaddingTrip ==
    history.tick.live /\ history.tick.trip # "stall" =>
        (history.tick.trip = "padding"
            <=> /\ now - runtimeState.streamGuard.startedAt > 1500
                /\ runtimeState.streamGuard.suspiciousStreak >= 4
                /\ history.tick.rawLen > 1500)

C9_Witness ==
    history.tick.live /\ history.tick.trip = "padding" /\ signals.padding = 1

\* C10 as stated: a fourth consecutive 130-character comma-and-backslash
\* increase, more than 1500 ms after the start, trips the padding condition.
C10_AsStated ==
    /\ history.tick.live
    /\ history.padRun >= 4
    /\ now - runtimeState.streamGuard.startedAt > 1500
    => history.tick.trip = "padding" /\ signals.padding = 1

\* C10: a fourth consecutive 130-character comma-and-backslash increase, more
\* than 1500 ms after the start and with a raw payload longer than 1500,
\* trips the padding condition, for the only time in the session.
C10_PaddingRun ==
    /\ history.tick.live
    /\ history.padRun >= 4
    /\ now - runtimeState.streamGuard.startedAt > 1500
    /\ history.tick.rawLen > 1500
    => history.tick.trip = "padding" /\ signals.padding = 1 /\ signals.stall = 0

C10_Witness ==
    /\ history.tick.live
    /\ history.padRun = 4
    /\ history.tick.trip = "padding"
    /\ runtimeState.streamGuard.lastDecodedLen = 4 * 130

(***************************************************************************)
(* What the session writes into the target message                         *)
(***************************************************************************)
\* A payload that begins a field-bearing structure and from which the decoder
\* extracts no text.
Undecodable(rs, raw) ==
    StartsWith(TrimStart(raw), <<"{">>) /\ tryUnwrapStructuredOutput(rs, raw) = Null

\* C11: no write of the session (streaming chunk, render pass, post-frame
\* guard, message-finalized, stop cleanup) leaves the raw structural payload,
\* one that starts with '{' and yields no text field, as the message's text.
C11_NeverRawPayload ==
    \A wr \in history.wrote : ~Undecodable(runtimeState, chat[wr.id + 1].mes)

(***************************************************************************)
(* Functions of index.js applied on their own to inputs drawn from bounded *)
(* sets.  The session stays as the module is loaded; call holds the        *)
(* function's input and, once the function was applied, its result.        *)
(***************************************************************************)
Session == <<runtimeState, settings, chat, microtasks, frames, timers, pending, now,
             signals, budget, history>>

Loaded ==
    /\ runtimeState = InitialRuntimeState
    /\ settings = [enabled |-> TRUE, hide_prefill_in_display |-> FALSE,
                   prefill_gen_enabled |-> TRUE, newline_token |-> NLToken,
                   continue_overlap_chars |-> 14]
    /\ chat = << >>
    /\ microtasks = << >>
    /\ frames = << >>
    /\ timers = {}
    /\ pending = NoPending
    /\ now = 1
    /\ signals = NoSignals
    /\ budget = 0
    /\ history = InitialHistory

\* The texts of at most n characters over an alphabet.
Texts(alphabet, n) == UNION {[1..k -> alphabet] : k \in 0..n}

(***************************************************************************)
(* The tolerant extractor on payloads {"value":"<body> for every body of   *)
(* at most MaxBody characters: letters, quotes, backslashes, spaces,       *)
(* closing braces and commas.                                              *)
(***************************************************************************)
MaxBody == 5
ScanAlphabet == {"a", "\"", "\\", " ", "}", ","}
ValueOpen == <<"{">> \o Quote \o FieldValue \o Quote \o <<":">> \o Quote

ScanInit ==
    /\ Loaded
    /\ call \in {[fn |-> "scan", raw |-> ValueOpen \o body, done |-> FALSE,
                  out |-> Null, unwrapped |-> Null] : body \in Texts(ScanAlphabet, MaxBody)}

Scan ==
    /\ call.fn = "scan" /\ ~call.done
    /\ call' = [call EXCEPT !.done = TRUE,
                            !.out = tryExtractJsonStringFieldLoose(call.raw, FieldValue),
                            !.unwrapped = tryUnwrapStructuredOutput(runtimeState, call.raw)]
    /\ UNCHANGED Session

ScanSpec == ScanInit /\ [][Scan]_vars

\* The number of backslashes that end just before position i of the field.
BackslashesBefore(raw, i, start) ==
    CHOOSE k \in 0..(i - start) :
        /\ \A j \in 1..k : raw[i - j] = "\\"
        /\ k = i - start \/ raw[i - k - 1] # "\\"

\* The character at i is not escaped: the backslashes before it pair up.
Unescaped(raw, i, start) == BackslashesBefore(raw, i, start) % 2 = 0

\* The quotes that close the field: unescaped, and followed, after any
\* whitespace, by '}' or ','.
ClosingQuotes(raw, start) ==
    {i \in start..Len(raw) :
        /\ raw[i] = "\"" /\ Unescaped(raw, i, start)
        /\ \E k \in (i + 1)..Len(raw) :
              /\ raw[k] \in {"}", ","}
              /\ \A j \in (i + 1)..(k - 1) : IsWhitespace(raw[j])}

FieldEnd(raw, start) ==
    IF ClosingQuotes(raw, start) = {} THEN Len(raw) + 1
    ELSE CHOOSE i \in ClosingQuotes(raw, start) : \A j \in ClosingQuotes(raw, start) : i <= j

\* The characters of raw from start up to end, without the escaping backslashes.
Literal(raw, start, end) ==
    LET kept == {j \in start..(end - 1) : ~(raw[j] = "\\" /\ Unescaped(raw, j, start))}
    IN [k \in 1..Cardinality(kept) |->
           raw[CHOOSE j \in kept : Cardinality({x \in kept : x < j}) = k - 1]]

\* C12: the tolerant scan ends the field at the first unescaped quote whose
\* next non-whitespace character is '}' or ',' and at no other quote: every
\* other unescaped quote, one followed by letters for one, is part of the
\* extracted value together with the text after it; and that value is what
\* the decoder returns when the payload is not valid JSON.
C12_TolerantTerminator ==
    call.fn = "scan" /\ call.done =>
        /\ call.out = Literal(call.raw, Len(ValueOpen) + 1,
                              FieldEnd(call.raw, Len(ValueOpen) + 1))
        /\ ~JsonParse(call.raw).ok => call.unwrapped = call.out

\* From {"value":"a"a"} the scan extracts a"a.
C12_Witness ==
    /\ call.fn = "scan" /\ call.done
    /\ call.raw = ValueOpen \o <<"a", "\"", "a", "\"", "}">>
    /\ call.out = <<"a", "\"", "a">>
    /\ call.unwrapped = <<"a", "\"", "a">>

(***************************************************************************)
(* The newline token: chosen for a text (src/index.js:2388), the text      *)
(* encoded with it for the wire (src/index.js:1454) and decoded again       *)
(* (src/index.js:1723), for every text of at most MaxText characters and   *)
(* the preferred tokens <NL> (the default setting) and ||.                 *)
(***************************************************************************)
MaxText == 4
TextAlphabet == {"a", "|", "\n", "\r"}
PreferredTokens == {NLToken, <<"|", "|">>}

NewlinesInit ==
    /\ Loaded
    /\ call \in {[fn |-> "newlines", text |-> text, preferred |-> preferred, at |-> "text",
                  token |-> Null, wire |-> Null, back |-> Null] :
                    text \in Texts(TextAlphabet, MaxText), preferred \in PreferredTokens}

EncodeText ==
    /\ call.fn = "newlines" /\ call.at = "text"
    /\ LET Wire(token) == [call EXCEPT !.at = "wire", !.token = token,
                                       !.wire = encodeNewlines(call.text, token)]
       IN call' = Wire(chooseNewlineToken(call.text, call.preferred))
    /\ UNCHANGED Session

DecodeWire ==
    /\ call.fn = "newlines" /\ call.at = "wire"
    /\ call' = [call EXCEPT !.at = "back", !.back = decodeNewlines(call.wire, call.token)]
    /\ UNCHANGED Session

NewlinesSpec == NewlinesInit /\ [][EncodeText \/ DecodeWire]_vars

\* C13: a text that does not contain the chosen newline token, encoded with
\* the token and decoded again, is the original text exactly.
C13_RoundTrip ==
    call.fn = "newlines" /\ call.at = "back" /\ ~Includes(call.text, call.token)
        => call.back = call.text

(***************************************************************************)
(* The continuation reconciler.  A Continue of a message with text base is *)
(* set up as onChatCompletionSettingsReady does (src/index.js:2321-2326),  *)
(* and a decoded candidate is joined to it, twice.  The candidate is an    *)
(* echo of the base (none, its overlap anchor, all of it, or its first k   *)
(* characters) followed by new text.                                       *)
(***************************************************************************)
MaxBase == 45

\* Fifty different characters, and a text that repeats itself.
Story ==
    LowerLetters \o <<"0", "1", "2", "3", "4", "5", "6", "7", "8", "9">>
                 \o <<".", "!", "?", ";", ":", "_", "/", "+", "=", "(", ")", "*", "&", "%">>
Laugh == Rep(<<"h", "a", " ">>, 17)

Bases == {SubSeq(Story, 1, n) : n \in {3, 16, 24, MaxBase}} \cup {Laugh}
Deltas == {<< >>, <<"#">>, <<"#", "#">>}

Echo(base, kind, k) ==
    CASE kind = "none" -> << >>
      [] kind = "anchor" -> computeContinueOverlapBase(base, 14)
      [] kind = "whole" -> base
      [] kind = "fragment" -> SubSeq(base, 1, k)

ReconcileInit ==
    /\ Loaded
    /\ call \in {[fn |-> "reconcile", base |-> base, kind |-> kind, k |-> 0, delta |-> delta,
                  at |-> "loaded", joined |-> Null, again |-> Null] :
                    base \in Bases, kind \in {"none", "anchor", "whole"}, delta \in Deltas}
              \cup
                 {[fn |-> "reconcile", base |-> base, kind |-> "fragment", k |-> k,
                   delta |-> << >>, at |-> "loaded", joined |-> Null, again |-> Null] :
                     base \in Bases, k \in 1..(MaxBase - 1)}
    /\ call.k < Len(call.base)

\* The continuation state of a Continue of call.base.
ContinueStart ==
    /\ call.fn = "reconcile" /\ call.at = "loaded"
    /\ LET Overlap(cont, overlap) ==
               buildContinueOverlapStripper([cont EXCEPT !.overlapText = overlap], overlap)
           Strippers(cont) ==
               Overlap(buildContinueStripper(cont, call.base),
                       computeContinueOverlapBase(call.base, settings.continue_overlap_chars))
       IN runtimeState' =
              [runtimeState EXCEPT
                 !.active = TRUE,
                 !.lastAppliedText = call.base,
                 !.newlineToken = NLToken,
                 !.continue = Strippers([ClearedContinue EXCEPT !.active = TRUE,
                                                                !.messageId = 0,
                                                                !.baseText = call.base])]
    /\ call' = [call EXCEPT !.at = "continuing"]
    /\ UNCHANGED <<settings, chat, microtasks, frames, timers, pending, now, signals, budget,
                   history>>

Candidate == Echo(call.base, call.kind, call.k) \o call.delta

Reconcile ==
    /\ call.fn = "reconcile" /\ call.at = "continuing"
    /\ call' = [call EXCEPT !.at = "joined",
                            !.joined = applyContinueJoin(runtimeState.continue, Candidate)]
    /\ UNCHANGED Session

ReconcileAgain ==
    /\ call.fn = "reconcile" /\ call.at = "joined"
    /\ call' = [call EXCEPT !.at = "again",
                            !.again = applyContinueJoin(runtimeState.continue, Candidate)]
    /\ UNCHANGED Session

ReconcileSpec == ReconcileInit /\ [][ContinueStart \/ Reconcile \/ ReconcileAgain]_vars

\* C14: whatever the provider echoes of the continued message (nothing, the
\* overlap anchor, all of it, or mid-stream its first k characters), the
\* joined text is the base followed by the new text (the base alone for a
\* leading fragment), and a second reconciliation of the same decoded text
\* gives the same joined text.
C14_NeverDuplicatesBase ==
    call.fn = "reconcile" /\ call.at \in {"joined", "again"} =>
        /\ call.joined = IF call.kind = "fragment" THEN call.base ELSE call.base \o call.delta
        /\ call.at = "again" => call.again = call.joined

(***************************************************************************)
(* Patterns.  A pattern is the text of a regular expression, character by  *)
(* character, as index.js assembles it.  RegExp(p) is what `new RegExp(p)` *)
(* makes of it: the spans of its character classes and groups, or a syntax *)
(* error.  Matching is by sets of positions: the positions of a text that  *)
(* a part of the pattern can reach from a set of positions.                *)
(***************************************************************************)
MinOf(S) == CHOOSE x \in S : \A y \in S : x <= y

\* The elements of a set of numbers in increasing order.
Sorted(S) == [k \in 1..Cardinality(S) |-> CHOOSE x \in S : Cardinality({y \in S : y < x}) = k - 1]

\* The character classes of p from position from on, as <<open, close>>;
\* close is 0 for a class that is never closed.
RECURSIVE ReClasses(_, _)
ReClasses(p, from) ==
    LET Closed(b, closes) ==
            IF closes = {} THEN {<<b, 0>>}
            ELSE {<<b, MinOf(closes)>>} \cup ReClasses(p, MinOf(closes) + 1)
        From(b) == Closed(b, {j \in (b + 1)..Len(p) : p[j] = "]" /\ Unescaped(p, j, 1)})
        First(opens) == IF opens = {} THEN {} ELSE From(MinOf(opens))
    IN First({i \in from..Len(p) : p[i] = "[" /\ Unescaped(p, i, 1)})

\* The syntax characters of p: unescaped and outside the character classes.
ReSyntax(p, classes) ==
    {i \in 1..Len(p) : /\ Unescaped(p, i, 1)
                       /\ ~\E c \in classes : c[1] < i /\ (c[2] = 0 \/ i <= c[2])}

\* The ')' that closes the '(' at g, or 0.
ReMate(p, syntax, g) ==
    LET closes == {j \in syntax : /\ j > g /\ p[j] = ")"
                                  /\ Cardinality({k \in syntax : g < k /\ k < j /\ p[k] = "("})
                                     = Cardinality({k \in syntax : g < k /\ k < j /\ p[k] = ")"})}
    IN IF closes = {} THEN 0 ELSE MinOf(closes)

\* The '}' that ends the quantifier opened by the '{' at b, or 0.
ReBraceEnd(p, b) ==
    LET ends == {j \in (b + 1)..Len(p) : p[j] = "}"}
    IN IF ends = {} THEN 0 ELSE MinOf(ends)

RECURSIVE ParseInt(_)
ParseInt(digits) ==
    IF digits = << >> THEN 0
    ELSE 10 * ParseInt(SubSeq(digits, 1, Len(digits) - 1))
         + (CHOOSE d \in 0..9 : DecimalDigit(d) = digits[Len(digits)])

IsDigits(t) == t # << >> /\ \A k \in 1..Len(t) : \E d \in 0..9 : DecimalDigit(d) = t[k]

\* The quantifier {n}, {n,} or {n,m} written between b and e: [ok, min, max],
\* max = -1 for no upper limit.
ReBraces(p, b, e) ==
    LET body == SubSeq(p, b + 1, e - 1)
        commas == {k \in 1..Len(body) : body[k] = ","}
        Two(k) == LET lo == SubSeq(body, 1, k - 1)
                      hi == SubSeq(body, k + 1, Len(body))
                  IN IF ~IsDigits(lo) THEN [ok |-> FALSE, min |-> 0, max |-> 0]
                     ELSE IF hi = << >> THEN [ok |-> TRUE, min |-> ParseInt(lo), max |-> -1]
                     ELSE IF ~IsDigits(hi) \/ ParseInt(hi) < ParseInt(lo)
                     THEN [ok |-> FALSE, min |-> 0, max |-> 0]
                     ELSE [ok |-> TRUE, min |-> ParseInt(lo), max |-> ParseInt(hi)]
    IN IF commas = {}
       THEN IF IsDigits(body) THEN [ok |-> TRUE, min |-> ParseInt(body), max |-> ParseInt(body)]
            ELSE [ok |-> FALSE, min |-> 0, max |-> 0]
       ELSE Two(MinOf(commas))

\* new RegExp(p): the spans of the pattern, and whether it is well formed.
\* A pattern is a syntax error when a class or a group is left open, a ')'
\* closes nothing, a quantifier has nothing to repeat or its numbers are out
\* of order, or the pattern ends in a lone backslash.  (Every '{' of the
\* patterns here opens a quantifier.)
RegExp(p) ==
    LET Checked(classes, syntax, opens, mate, braces, brace, quants) ==
            LET Repeatable(i) ==
                    /\ i >= 1
                    /\ \/ i \notin syntax
                       \/ /\ i \notin opens /\ i \notin quants
                          /\ p[i] \notin {"|", "^"}
                          /\ ~(p[i] = ":" /\ (i - 2) \in opens /\ p[i - 1] = "?")
            IN [src |-> p, classes |-> classes, syntax |-> syntax, opens |-> opens,
                mate |-> mate, brace |-> brace, quants |-> quants,
                ok |-> /\ \A c \in classes : c[2] # 0
                       /\ \A g \in opens : mate[g] # 0
                       /\ \A j \in syntax : p[j] = ")" => \E g \in opens : mate[g] = j
                       /\ \A b \in braces : brace[b] # 0 /\ ReBraces(p, b, brace[b]).ok
                       /\ \A q \in quants : Repeatable(q - 1)
                       /\ ~(p # << >> /\ p[Len(p)] = "\\" /\ Unescaped(p, Len(p), 1))]
        Braces(classes, syntax, opens, braces, brace) ==
            Checked(classes, syntax, opens, [g \in opens |-> ReMate(p, syntax, g)], braces, brace,
                    {i \in syntax : /\ p[i] \in {"+", "*", "?"}
                                    /\ ~(\E b \in braces : b < i /\ i <= brace[b])
                                    /\ ~(p[i] = "?" /\ (i - 1) \in opens)}
                    \cup braces)
        Groups(classes, syntax) ==
            LET braces == {i \in syntax : p[i] = "{"}
            IN Braces(classes, syntax, {i \in syntax : p[i] = "("}, braces,
                      [b \in braces |-> ReBraceEnd(p, b)])
        Classes(classes) == Groups(classes, ReSyntax(p, classes))
    IN Classes(ReClasses(p, 1))

(***************************************************************************)
(* Matching a compiled pattern re against a text s                         *)
(***************************************************************************)
Ascii == <<"0", "1", "2", "3", "4", "5", "6", "7", "8", "9">> \o UpperLetters \o LowerLetters
Ord(ch) == IF \E k \in 1..Len(Ascii) : Ascii[k] = ch
           THEN CHOOSE k \in 1..Len(Ascii) : Ascii[k] = ch ELSE 0

\* The character ch matches the escape \x.
ReEscapeHas(x, ch) ==
    CASE x = "s" -> ch \in {" ", "\t", "\n", "\r", "\f", "NBSP"}
      [] x = "S" -> ch \notin {" ", "\t", "\n", "\r", "\f", "NBSP"}
      [] x = "d" -> Ord(ch) \in 1..10
      [] x = "n" -> ch = "\n"
      [] x = "t" -> ch = "\t"
      [] x = "r" -> ch = "\r"
      [] OTHER -> ch = x

\* The character ch is in the class written from b to e.
ReClassHas(p, b, e, ch) ==
    LET first == IF p[b + 1] = "^" THEN b + 2 ELSE b + 1
        Dash(k) == p[k] = "-" /\ Unescaped(p, k, 1) /\ first < k /\ k < e - 1
        Item(k) ==
            /\ Unescaped(p, k, 1)
            /\ IF p[k] = "\\" THEN ReEscapeHas(p[k + 1], ch)
               ELSE IF k + 2 < e /\ Dash(k + 1)
               THEN Ord(p[k]) # 0 /\ Ord(ch) # 0 /\ Ord(p[k]) <= Ord(ch) /\ Ord(ch) <= Ord(p[k + 2])
               ELSE ~Dash(k) /\ p[k] = ch
        has == \E k \in first..(e - 1) : Item(k)
    IN IF p[b + 1] = "^" THEN ~has ELSE has

\* The last character of the atom that starts at i, without its quantifier.
ReAtomEnd(re, i) ==
    IF i \in re.opens THEN re.mate[i]
    ELSE IF \E c \in re.classes : c[1] = i THEN (CHOOSE c \in re.classes : c[1] = i)[2]
    ELSE IF re.src[i] = "\\" THEN i + 1
    ELSE i

\* The quantifier that follows the atom ending at e: [min, max, end].
ReQuantifier(re, e) ==
    LET p == re.src
        q == e + 1
    IN IF q > Len(p) \/ q \notin re.quants THEN [min |-> 1, max |-> 1, end |-> e]
       ELSE IF p[q] = "+" THEN [min |-> 1, max |-> -1, end |-> q]
       ELSE IF p[q] = "*" THEN [min |-> 0, max |-> -1, end |-> q]
       ELSE IF p[q] = "?" THEN [min |-> 0, max |-> 1, end |-> q]
       ELSE [min |-> ReBraces(p, q, re.brace[q]).min, max |-> ReBraces(p, q, re.brace[q]).max,
             end |-> re.brace[q]]

\* The alternatives of the part lo..hi of the pattern, as <<first, last>>.
ReAlternatives(re, lo, hi) ==
    LET bars == {i \in re.syntax : /\ lo <= i /\ i <= hi /\ re.src[i] = "|"
                                   /\ ~\E g \in re.opens : lo <= g /\ g < i /\ i < re.mate[g]}
        starts == {lo} \cup {k + 1 : k \in bars}
    IN {<<a, IF \E k \in bars : k >= a THEN MinOf({k \in bars : k >= a}) - 1 ELSE hi>> :
          a \in starts}

\* The atoms of the alternative a..b: the positions where they start.
ReAtoms(re, a, b) ==
    {i \in a..b :
        /\ Unescaped(re.src, i, 1)
        /\ ~\E c \in re.classes : c[1] < i /\ i <= c[2]
        /\ ~\E g \in re.opens : a <= g /\ g < i /\ i <= re.mate[g]
        /\ ~\E q \in re.quants : q <= i /\ i <= ReQuantifier(re, q - 1).end}

RECURSIVE ReAlt(_, _, _, _, _)
RECURSIVE ReSeq(_, _, _, _, _, _)
RECURSIVE ReRepeat(_, _, _, _, _, _, _)
RECURSIVE ReOnce(_, _, _, _)

\* The positions of s reached from the positions from by the alternation lo..hi.
ReAlt(re, lo, hi, s, from) ==
    UNION {ReSeq(re, Sorted(ReAtoms(re, alt[1], alt[2])), 1,
                 Cardinality(ReAtoms(re, alt[1], alt[2])), s, from) :
             alt \in ReAlternatives(re, lo, hi)}

\* ... by the atoms x..y of a sequence, each with its quantifier.
ReSeq(re, atoms, x, y, s, from) ==
    IF from = {} \/ x > y THEN from
    ELSE IF x = y
    THEN LET q == ReQuantifier(re, ReAtomEnd(re, atoms[x]))
         IN ReRepeat(re, atoms[x], s, from, q.min, q.max, 0)
    ELSE ReSeq(re, atoms, ((x + y) \div 2) + 1, y, s,
               ReSeq(re, atoms, x, (x + y) \div 2, s, from))

\* ... by min to max repetitions of the atom at i, k of them already made.
ReRepeat(re, i, s, from, min, max, k) ==
    (IF k >= min THEN from ELSE {})
    \cup (IF from = {} \/ (max # -1 /\ k >= max) \/ k > Len(s) + min THEN {}
          ELSE ReRepeat(re, i, s, ReOnce(re, i, s, from), min, max, k + 1))

\* ... by the atom at i, once.
ReOnce(re, i, s, from) ==
    LET p == re.src
        Char(ok(_)) == {j + 1 : j \in {j \in from : j <= Len(s) /\ ok(s[j])}}
        InClass(ch) == ReClassHas(p, i, ReAtomEnd(re, i), ch)
        Escape(ch) == ReEscapeHas(p[i + 1], ch)
        Dot(ch) == ch \notin {"\n", "\r"}
        Same(ch) == ch = p[i]
    IN IF i \in re.opens
       THEN ReAlt(re, IF p[i + 1] = "?" THEN i + 3 ELSE i + 1, re.mate[i] - 1, s, from)
       ELSE IF \E c \in re.classes : c[1] = i THEN Char(InClass)
       ELSE IF p[i] = "\\" THEN Char(Escape)
       ELSE IF p[i] = "." THEN Char(Dot)
       ELSE IF p[i] = "^" THEN from \cap {1}
       ELSE IF p[i] = "$" THEN from \cap {Len(s) + 1}
       ELSE Char(Same)

\* RegExp.test for a pattern that is to match the whole text.
Accepts(re, s) == (Len(s) + 1) \in ReAlt(re, 1, Len(re.src), s, {1})

(***************************************************************************)
(* The patterns sent to the backend, built as the code concatenates them   *)
(***************************************************************************)
MaxOf(S) == CHOOSE x \in S : \A y \in S : y <= x

ToUpperCase(ch) ==
    IF \E k \in 1..26 : LowerLetters[k] = ch
    THEN UpperLetters[CHOOSE k \in 1..26 : LowerLetters[k] = ch]
    ELSE ch

LowerText(s) == [k \in 1..Len(s) |-> ToLowerCase(s[k])]

\* String.prototype.trim
Trim(s) ==
    LET keep == {k \in 1..Len(s) : ~IsWhitespace(s[k])}
    IN IF keep = {} THEN << >> ELSE SubSeq(s, MinOf(keep), MaxOf(keep))

\* The texts of a list, one after the other, with sep between them.
RECURSIVE JoinRange(_, _, _, _)
JoinRange(list, sep, x, y) ==
    IF x > y THEN << >>
    ELSE IF x = y THEN list[x]
    ELSE JoinRange(list, sep, x, (x + y) \div 2) \o sep
         \o JoinRange(list, sep, ((x + y) \div 2) + 1, y)

JoinWith(list, sep) == JoinRange(list, sep, 1, Len(list))

\* raw.split('\n')
SplitLines(raw) ==
    LET breaks == {k \in 1..Len(raw) : raw[k] = "\n"}
        starts == Sorted({1} \cup {k + 1 : k \in breaks})
    IN [n \in 1..Len(starts) |->
          SubSeq(raw, starts[n],
                 IF \E k \in breaks : k >= starts[n]
                 THEN MinOf({k \in breaks : k >= starts[n]}) - 1 ELSE Len(raw))]

\* escapeRegExp: a backslash before every character the pattern syntax uses.
RegExpSpecials == {".", "*", "+", "?", "^", "$", "{", "}", "(", ")", "|", "[", "]", "\\"}

escapeRegExp(str) ==
    LET At(k) == IF str[k] \in RegExpSpecials THEN <<"\\", str[k]>> ELSE <<str[k]>>
    IN JoinWith([k \in 1..Len(str) |-> At(k)], << >>)

\* escapePrefixLiteral: as escapeRegExp, and any number of backslashes may
\* come before a double quote.
escapePrefixLiteral(str) ==
    LET At(k) == IF str[k] = "\"" THEN <<"(", "?", ":", "\\", "\\", ")", "*", "\"">>
                 ELSE IF str[k] \in RegExpSpecials THEN <<"\\", str[k]>> ELSE <<str[k]>>
    IN JoinWith([k \in 1..Len(str) |-> At(k)], << >>)

\* clampInt for a value that is a finite number already.
clampInt(value, min, max) == IF value < min THEN min ELSE IF value > max THEN max ELSE value

anyCharIncludingNewlineExpr == <<"(", "?", ":", ".", "|", "\\", "n", ")">>

\* The entries of the ban list: its trimmed lines, without the empty ones and
\* without the repetitions (compared in lower case), in their order.
BanWords(banListStr) ==
    LET lines == SplitLines(banListStr)
        keep == {n \in 1..Len(lines) :
                   /\ Trim(lines[n]) # << >>
                   /\ ~\E m \in 1..(n - 1) : LowerText(Trim(lines[m])) = LowerText(Trim(lines[n]))}
    IN [n \in 1..Cardinality(keep) |-> Trim(lines[Sorted(keep)[n]])]

\* The trie of the banned words.  A node is the lower-case prefix that leads
\* to it; its children are kept in the order the words brought them in.
TrieChildren(words, node) ==
    LET First(key) == MinOf({n \in 1..Len(words) :
                               StartsWith(LowerText(words[n]), Append(node, key))})
        keys == {LowerText(words[n])[Len(node) + 1] :
                   n \in {n \in 1..Len(words) : /\ Len(words[n]) > Len(node)
                                                /\ StartsWith(LowerText(words[n]), node)}}
    IN [k \in 1..Cardinality(keys) |->
          CHOOSE key \in keys : Cardinality({other \in keys : First(other) < First(key)}) = k - 1]

TrieEnd(words, node) == \E n \in 1..Len(words) : LowerText(words[n]) = node

escClass(c) == IF c \in {"]", "\\", "^", "-"} THEN <<"\\", c>> ELSE <<c>>

\* toRegex(node): the group matching one step that is safe from this node,
\* Null for a node without children.
RECURSIVE toRegex(_, _)
toRegex(words, node) ==
    LET children == TrieChildren(words, node)
        Excluded(key) == IF ToUpperCase(key) # key THEN escClass(key) \o escClass(ToUpperCase(key))
                         ELSE escClass(key)
        charExpr(key) == IF ToUpperCase(key) # key THEN <<"[", ToUpperCase(key), key, "]">>
                         ELSE escClass(key)
        Branch(key, sub) == IF sub = Null THEN charExpr(key) ELSE charExpr(key) \o sub
        open == {k \in 1..Len(children) : ~TrieEnd(words, Append(node, children[k]))}
        safeClass == <<"[", "^">> \o JoinWith([k \in 1..Len(children) |-> Excluded(children[k])], << >>)
                     \o <<"]">>
        branches == [n \in 1..Cardinality(open) |->
                       Branch(children[Sorted(open)[n]],
                              toRegex(words, Append(node, children[Sorted(open)[n]])))]
    IN IF children = << >> THEN Null
       ELSE <<"(">> \o JoinWith(<<safeClass>> \o branches, <<"|">>) \o <<")">>

\* buildAntiSlopContinuation: the step built from the ban list, Null when the
\* list is empty or the step is not a pattern.
buildAntiSlopContinuation(banListStr) ==
    LET Validated(expr) == IF expr = Null \/ ~RegExp(expr).ok THEN Null ELSE expr
    IN IF Trim(banListStr) = << >> \/ BanWords(banListStr) = << >> THEN Null
       ELSE Validated(toRegex(BanWords(banListStr), << >>))

\* The limits the builders are written with.
WordsLimit == 2000
WordsCap == 40
LinesLimit == 50
OptionsLimit == 50
ActionWords == 6
ThoughtWords == 10
EnumerateLimit == 30
MinCharsLimit == 10000

\* The decimal digits of an integer, as String(v) writes them.
RECURSIVE NumberText(_)
NumberText(v) ==
    IF v < 0 THEN <<"-">> \o NumberText(-v)
    ELSE IF v < 10 THEN <<DecimalDigit(v)>>
    ELSE NumberText(v \div 10) \o <<DecimalDigit(v % 10)>>

\* The first position from i on that holds no white space (no digit).
SkipSpace(s, i) == MinOf({j \in i..(Len(s) + 1) : j = Len(s) + 1 \/ ~IsWhitespace(s[j])})
SkipDigits(s, i) ==
    MinOf({j \in i..(Len(s) + 1) : j = Len(s) + 1 \/ ~\E d \in 0..9 : DecimalDigit(d) = s[j]})

\* splitHintSuffix(placeholderBody).spec
splitHintSuffix(placeholderBody) ==
    LET hints == {k \in 1..Len(placeholderBody) :
                    StartsWithAt(LowerText(placeholderBody), <<"|", "h", "i", "n", "t", ":">>, k)}
    IN IF hints = {} THEN Trim(placeholderBody)
       ELSE Trim(SubSeq(placeholderBody, 1, MaxOf(hints) - 1))

\* The keyword of a slot, one of names, and where the text after it starts;
\* 0 when the body starts with none of them.
SlotKeyword(body, names, After(_)) ==
    LET fits == {n \in 1..Len(names) : StartsWith(body, names[n]) /\ After(Len(names[n]) + 1)}
    IN IF fits = {} THEN 0 ELSE Len(names[MinOf(fits)]) + 1

\* The rest of a slot from i on, read as  \s*:\s*(a)(?:\s*-\s*(b))?\s*$ ,
\* a and b being digits, after a sign when signed.
SlotRange(s, i, signed) ==
    LET Number(j) == IF signed /\ j <= Len(s) /\ s[j] = "-" THEN SkipDigits(s, j + 1)
                     ELSE SkipDigits(s, j)
        HasDigits(j) == Number(j) > (IF signed /\ j <= Len(s) /\ s[j] = "-" THEN j + 1 ELSE j)
        colon == SkipSpace(s, i)
        a == SkipSpace(s, colon + 1)
        dash == SkipSpace(s, Number(a))
        b == SkipSpace(s, dash + 1)
        none == [ok |-> FALSE, a |-> Null, b |-> Null]
    IN IF colon > Len(s) \/ s[colon] # ":" \/ ~HasDigits(a) THEN none
       ELSE IF dash > Len(s) THEN [ok |-> TRUE, a |-> SubSeq(s, a, Number(a) - 1), b |-> Null]
       ELSE IF s[dash] # "-" \/ ~HasDigits(b) \/ SkipSpace(s, Number(b)) <= Len(s) THEN none
       ELSE [ok |-> TRUE, a |-> SubSeq(s, a, Number(a) - 1), b |-> SubSeq(s, b, Number(b) - 1)]

\* Number(text) for a text of digits, after a sign or not.
ParseSigned(text) == IF Head(text) = "-" THEN 0 - ParseInt(Tail(text)) ELSE ParseInt(text)

\* The rest of a slot from i on, read as  \s*:\s*(.+?)\s*$ : the text (.+?),
\* Null when there is none.  (A slot holds no line break: the template is the
\* wire template.)
SlotText(s, i) ==
    LET colon == SkipSpace(s, i)
    IN IF colon >= Len(s) \/ s[colon] # ":" THEN Null
       ELSE IF Trim(SubSeq(s, colon + 1, Len(s))) = << >> THEN <<" ">>
       ELSE Trim(SubSeq(s, colon + 1, Len(s)))

\* sanitizeUserRegex
sanitizeUserRegex(raw) ==
    LET Unanchored(s) ==
            LET body == {k \in 1..Len(s) : s[k] # "^"}
                first == IF body = {} THEN Len(s) + 1 ELSE MinOf(body)
                rest == SubSeq(s, first, Len(s))
                kept == {k \in 1..Len(rest) : rest[k] # "$"}
            IN Trim(IF kept = {} THEN << >> ELSE SubSeq(rest, 1, MaxOf(kept)))
        Inner(s) ==
            LET slashes == {k \in 1..Len(s) : s[k] = "/"}
            IN IF s[1] = "/" /\ MaxOf(slashes) > 1 /\ SubSeq(s, 2, MaxOf(slashes) - 1) # << >>
               THEN SubSeq(s, 2, MaxOf(slashes) - 1) ELSE s
    IN IF Trim(raw) = << >> THEN << >>
       ELSE IF \E k \in 1..Len(Trim(raw)) : Trim(raw)[k] \in {"\n", "\r"} THEN << >>
       ELSE Unanchored(Inner(Trim(raw)))

\* parseOptionsList
parseOptionsList(raw) ==
    LET cuts == {k \in 1..Len(raw) : raw[k] \in {"|", ","}}
        starts == Sorted({1} \cup {k + 1 : k \in cuts})
        Part(n) == Trim(SubSeq(raw, starts[n],
                               IF \E k \in cuts : k >= starts[n]
                               THEN MinOf({k \in cuts : k >= starts[n]}) - 1 ELSE Len(raw)))
        keep == {n \in 1..Len(starts) : Part(n) # << >> /\ ~\E m \in 1..(n - 1) : Part(m) = Part(n)}
    IN [n \in 1..(IF Cardinality(keep) > OptionsLimit THEN OptionsLimit ELSE Cardinality(keep)) |->
          Part(Sorted(keep)[n])]

\* As buildWordCountPatternNoRanges, but without the words allowed after the
\* cap.
buildWordCountPatternCapped(minWords, maxWords, wordToken, wordSep) ==
    LET min == clampInt(minWords, 1, WordsLimit)
        max == clampInt(maxWords, 1, WordsLimit)
        lo == IF min < max THEN min ELSE max
        hi == IF min < max THEN max ELSE min
        cappedHi == IF hi < WordsCap THEN hi ELSE WordsCap
        optional == <<"(", "?", ":">> \o wordSep \o wordToken \o <<")", "?">>
    IN JoinWith([i \in 1..lo |-> IF i = 1 THEN wordToken ELSE wordSep \o wordToken], << >>)
       \o JoinWith([i \in 1..(cappedHi - lo) |-> optional], << >>)

\* buildWordCountPatternNoRanges: the words written out, without {n,m}.
buildWordCountPatternNoRanges(minWords, maxWords, wordToken, wordSep) ==
    LET min == clampInt(minWords, 1, WordsLimit)
        max == clampInt(maxWords, 1, WordsLimit)
        lo == IF min < max THEN min ELSE max
        hi == IF min < max THEN max ELSE min
        cappedHi == IF hi < WordsCap THEN hi ELSE WordsCap
        optional == <<"(", "?", ":">> \o wordSep \o wordToken \o <<")", "?">>
    IN JoinWith([i \in 1..lo |-> IF i = 1 THEN wordToken ELSE wordSep \o wordToken], << >>)
       \o JoinWith([i \in 1..(cappedHi - lo) |-> optional], << >>)
       \o (IF hi > WordsCap THEN <<"(", "?", ":">> \o wordSep \o wordToken \o <<")", "*">>
           ELSE << >>)

Emotions ==
    <<"(", "?", ":", "h", "a", "p", "p", "y", "|", "s", "a", "d", "|", "a", "n", "g", "r",
    "y", "|", "n", "e", "r", "v", "o", "u", "s", "|", "e", "x", "c", "i", "t", "e", "d", "|",
    "s", "c", "a", "r", "e", "d", "|", "c", "o", "n", "f", "u", "s", "e", "d", "|", "a", "m",
    "u", "s", "e", "d", "|", "a", "n", "n", "o", "y", "e", "d", "|", "a", "n", "x", "i", "o",
    "u", "s", "|", "b", "o", "r", "e", "d", "|", "c", "a", "l", "m", "|", "c", "u", "r", "i",
    "o", "u", "s", "|", "d", "e", "s", "p", "e", "r", "a", "t", "e", "|", "d", "i", "s", "g",
    "u", "s", "t", "e", "d", "|", "e", "m", "b", "a", "r", "r", "a", "s", "s", "e", "d", "|",
    "f", "r", "u", "s", "t", "r", "a", "t", "e", "d", "|", "g", "r", "a", "t", "e", "f", "u",
    "l", "|", "g", "u", "i", "l", "t", "y", "|", "h", "o", "p", "e", "f", "u", "l", "|", "h",
    "u", "r", "t", "|", "j", "e", "a", "l", "o", "u", "s", "|", "l", "o", "n", "e", "l", "y",
    "|", "n", "o", "s", "t", "a", "l", "g", "i", "c", "|", "p", "a", "n", "i", "c", "k", "e",
    "d", "|", "p", "l", "a", "y", "f", "u", "l", "|", "p", "r", "o", "u", "d", "|", "r", "e",
    "l", "i", "e", "v", "e", "d", "|", "s", "h", "y", "|", "s", "m", "u", "g", "|", "s", "u",
    "r", "p", "r", "i", "s", "e", "d", "|", "s", "u", "s", "p", "i", "c", "i", "o", "u", "s",
    "|", "t", "e", "n", "d", "e", "r", "|", "t", "e", "r", "r", "i", "f", "i", "e", "d", "|",
    "t", "h", "o", "u", "g", "h", "t", "f", "u", "l", "|", "t", "i", "r", "e", "d", "|", "u",
    "n", "c", "o", "m", "f", "o", "r", "t", "a", "b", "l", "e", "|", "w", "o", "r", "r", "i",
    "e", "d", "|", "f", "l", "u", "s", "t", "e", "r", "e", "d", "|", "m", "e", "l", "a", "n",
    "c", "h", "o", "l", "i", "c", "|", "d", "e", "t", "e", "r", "m", "i", "n", "e", "d", "|",
    "f", "e", "a", "r", "f", "u", "l", "|", "c", "o", "n", "t", "e", "n", "t", "|", "b", "i",
    "t", "t", "e", "r", "|", "a", "f", "f", "e", "c", "t", "i", "o", "n", "a", "t", "e", "|",
    "g", "i", "d", "d", "y", "|", "r", "e", "s", "i", "g", "n", "e", "d", "|", "d", "e", "f",
    "i", "a", "n", "t", "|", "w", "i", "s", "t", "f", "u", "l", "|", "s", "o", "m", "b", "e",
    "r", ")">>

\* buildPlaceholderRegex: the pattern of one slot [[placeholderBody]].
buildPlaceholderRegex(rs, placeholderBody) ==
    LET body == splitHintSuffix(placeholderBody)
        lower == LowerText(body)
        newlineTokSingle == IF Len(rs.newlineToken) = 1 THEN escClass(rs.newlineToken[1]) ELSE << >>
        wordTokenCore == <<"[", "^", "\\", "s", ",", "<", ">">> \o newlineTokSingle \o <<"]", "+">>
        wordToken == wordTokenCore \o
                     <<"[", ",", "\\", ".", "!", "\\", "?", ";", ":", "'", "\"", "\\", ")", "\\", "]", "\\", "}", "~", "-", "]", "*">>
        wordSep == <<"[", "\\", "t", " ", "]", "+">>
        quoteless == <<"[", "^", "\\", "s", "\"", "<", ">">> \o newlineTokSingle \o <<"]", "+">>
        anthropic == rs.patternMode = "anthropic"
        Ranged(token, sep, lo, hi) ==
            token \o <<"(", "?", ":">> \o sep \o token \o <<")", "{">>
            \o NumberText(lo) \o <<",">> \o NumberText(hi) \o <<"}">>
        Group(alternatives) == <<"(", "?", ":">> \o JoinWith(alternatives, <<"|">>) \o <<")">>
        Ends(i) == SkipSpace(lower, i) > Len(lower)
        WordsOk(i) == SlotRange(lower, i, FALSE).ok
        Words(m) ==
            LET a == clampInt(ParseInt(m.a), 1, WordsLimit)
                b == IF m.b # Null THEN clampInt(ParseInt(m.b), 1, WordsLimit) ELSE a
                min == IF a < b THEN a ELSE b
                max == IF a < b THEN b ELSE a
            IN IF anthropic THEN buildWordCountPatternNoRanges(min, max, wordToken, wordSep)
               ELSE Ranged(wordToken, wordSep, min - 1, max - 1)
        TextOk(i) == SlotText(body, i) # Null
        Options(options) ==
            IF options # << >> THEN Group([n \in 1..Len(options) |-> escapeRegExp(options[n])])
            ELSE wordToken
        UserRegex(userRegex) ==
            IF userRegex = << >> THEN anyCharIncludingNewlineExpr \o <<"*">>
            ELSE IF anthropic /\ (\/ \E k \in 1..Len(userRegex) : userRegex[k] \in {"{", "}"}
                                  \/ Includes(userRegex, <<"\\", "S">>))
            THEN anyCharIncludingNewlineExpr \o <<"*">>
            ELSE <<"(", "?", ":">> \o userRegex \o <<")">>
        lineExpr == <<".", "+">>
        nlExpr == IF rs.newlineToken # << >>
                  THEN <<"(", "?", ":">> \o escapeRegExp(rs.newlineToken) \o <<"|", "\\", "n", ")">>
                  ELSE <<"\\", "n">>
        LinesOk(i) == Ends(i) \/ SlotRange(lower, i, FALSE).ok
        Lines(m) ==
            LET a == clampInt(ParseInt(m.a), 1, LinesLimit)
                b == IF m.b # Null THEN clampInt(ParseInt(m.b), 1, LinesLimit) ELSE a
                lo == IF a < b THEN a ELSE b
                hi == IF a < b THEN b ELSE a
            IN IF anthropic
               THEN lineExpr \o JoinWith([i \in 1..(lo - 1) |-> nlExpr \o lineExpr], << >>)
                    \o JoinWith([i \in 1..(hi - lo) |->
                                   <<"(", "?", ":">> \o nlExpr \o lineExpr \o <<")", "?">>], << >>)
               ELSE IF lo = hi
               THEN IF lo = 1 THEN lineExpr
                    ELSE lineExpr \o <<"(", "?", ":">> \o nlExpr \o lineExpr \o <<")", "{">>
                         \o NumberText(lo - 1) \o <<"}">>
               ELSE Ranged(lineExpr, nlExpr, lo - 1, hi - 1)
        names == SelectSeq(rs.knownNames, LAMBDA n : n # << >>)
        Name ==
            IF names # << >> THEN Group([n \in 1..Len(names) |-> escapeRegExp(names[n])])
            ELSE IF anthropic THEN <<"[", "A", "-", "Z", "]", "[", "a", "-", "z", "]", "+", "(", "?", ":", "[", "\\", "t", " ", "]", "+", "[", "A", "-", "Z", "]", "[", "a", "-", "z", "]", "+", ")", "?">>
            ELSE <<"[", "A", "-", "Z", "]", "[", "a", "-", "z", "]", "+", "(", "?", ":", "[", "\\", "t", " ", "]", "+", "[", "A", "-", "Z", "]", "[", "a", "-", "z", "]", "+", ")", "{", "0", ",", "2", "}">>
        Phrase(words) ==
            IF anthropic THEN buildWordCountPatternNoRanges(1, words, quoteless, wordSep)
            ELSE Ranged(quoteless, wordSep, 0, words - 1)
        NumberOk(i) ==
            \/ Ends(i)
            \/ SlotRange(lower, i, TRUE).ok /\ SlotRange(lower, i, TRUE).b # Null
        Numbers(m) ==
            LET lo == ParseSigned(m.a)
                hi == ParseSigned(m.b)
                minVal == IF lo < hi THEN lo ELSE hi
                maxVal == IF lo < hi THEN hi ELSE lo
                minDigits == Len(NumberText(IF minVal < 0 THEN -minVal ELSE minVal))
                maxDigits == Len(NumberText(IF maxVal < 0 THEN -maxVal ELSE maxVal))
                prefix == IF minVal < 0 THEN <<"-", "?">> ELSE << >>
            IN IF maxVal - minVal <= EnumerateLimit
               THEN Group([n \in 1..(maxVal - minVal + 1) |-> NumberText(minVal + n - 1)])
               ELSE IF anthropic
               THEN prefix \o Group([n \in 1..(maxDigits - minDigits + 1) |->
                                       Rep(<<"[", "0", "-", "9", "]">>, 5 * (minDigits + n - 1))])
               ELSE prefix \o <<"[", "0", "-", "9", "]">> \o <<"{">> \o NumberText(minDigits)
                    \o <<",">> \o NumberText(maxDigits) \o <<"}">>
        Is(word) == StartsWith(lower, word) /\ Ends(Len(word) + 1)
        w == SlotKeyword(lower, <<<<"w">>, <<"w", "o", "r", "d", "s">>>>, WordsOk)
        opt == SlotKeyword(body, <<<<"o", "p", "t">>, <<"o", "p", "t", "i", "o", "n", "s">>>>, TextOk)
        re == SlotKeyword(body, <<<<"r", "e">>, <<"r", "e", "g", "e", "x">>>>, TextOk)
        line == SlotKeyword(lower, <<<<"l", "i", "n", "e">>, <<"l", "i", "n", "e", "s">>>>, LinesOk)
        num == SlotKeyword(lower, <<<<"n", "u", "m">>, <<"n", "u", "m", "b", "e", "r">>>>, NumberOk)
    IN IF body = << >> THEN wordToken
       ELSE IF w # 0 THEN Words(SlotRange(lower, w, FALSE))
       ELSE IF opt # 0 THEN Options(parseOptionsList(SlotText(body, opt)))
       ELSE IF re # 0 THEN UserRegex(sanitizeUserRegex(SlotText(body, re)))
       ELSE IF Is(<<"f", "r", "e", "e">>) THEN anyCharIncludingNewlineExpr \o <<"+">>
       ELSE IF Is(<<"k", "e", "e", "p">>) THEN <<"(", "?", ":", ")">>
       ELSE IF Is(<<"e", "m", "o", "t", "i", "o", "n">>) \/ Is(<<"m", "o", "o", "d">>) THEN Emotions
       ELSE IF line # 0 THEN IF Ends(line) THEN lineExpr ELSE Lines(SlotRange(lower, line, FALSE))
       ELSE IF Is(<<"n", "a", "m", "e">>) THEN Name
       ELSE IF Is(<<"a", "c", "t", "i", "o", "n">>) THEN Phrase(ActionWords)
       ELSE IF Is(<<"t", "h", "o", "u", "g", "h", "t">>) THEN Phrase(ThoughtWords)
       ELSE IF num # 0
       THEN IF Ends(num) THEN <<"-", "?">> \o <<"[", "0", "-", "9", "]">> \o <<"+">>
            ELSE Numbers(SlotRange(lower, num, TRUE))
       ELSE wordToken

\* The first match of /\[\[(.+?)\]\]/ in the template: where its [[ and its
\* ]] start, or zeros; the dot matches no line terminator (src/index.js:1438).
CompiledSlot(template) ==
    LET Closes(i) == {j \in (i + 3)..(Len(template) - 1) : template[j] = "]" /\ template[j + 1] = "]"}
        Body(i, j) == \A k \in (i + 2)..(j - 1) : template[k] \notin {"\n", "\r"}
        opens == {i \in 1..(Len(template) - 1) :
                    /\ template[i] = "[" /\ template[i + 1] = "["
                    /\ Closes(i) # {}
                    /\ Body(i, MinOf(Closes(i)))}
    IN IF opens = {} THEN [open |-> 0, close |-> 0]
       ELSE [open |-> MinOf(opens), close |-> MinOf(Closes(MinOf(opens)))]

\* buildPrefixRegexFromWireTemplate: the literal parts escaped, the slots
\* [[...]] replaced by their patterns.
RECURSIVE buildPrefixRegexFromWireTemplate(_, _)
buildPrefixRegexFromWireTemplate(rs, template) ==
    LET Slot(i, j) ==
            escapePrefixLiteral(SubSeq(template, 1, i - 1))
            \o buildPlaceholderRegex(rs, SubSeq(template, i + 2, j - 1))
            \o buildPrefixRegexFromWireTemplate(rs, SubSeq(template, j + 2, Len(template)))
        First(slot) == IF slot.open = 0 THEN escapePrefixLiteral(template)
                       ELSE Slot(slot.open, slot.close)
    IN First(CompiledSlot(template))

\* s.split(find).join(with)
RECURSIVE SplitJoin(_, _, _)
SplitJoin(s, find, with) ==
    IF find = << >> \/ IndexOf(s, find) = -1 THEN s
    ELSE SubSeq(s, 1, IndexOf(s, find)) \o with
         \o SplitJoin(SubSeq(s, IndexOf(s, find) + Len(find) + 1, Len(s)), find, with)

\* The characters outside \x00-\x7F.
NonAscii == {"LDQ", "RDQ", "LSQ", "RSQ", "NBSP", "U+"}

\* buildJsonSchemaForPrefillValuePattern: the constraint object, of which the
\* pattern is kept.
buildJsonSchemaForPrefillValuePattern(rs, banListStr, prefix, minCharsAfterPrefix, joinSuffixRegex) ==
    LET minChars == clampInt(minCharsAfterPrefix, 1, MinCharsLimit)
        newlineToken == IF rs.newlineToken # << >> THEN rs.newlineToken ELSE NLToken
        anthropic == rs.patternMode = "anthropic"
        Either(prefixRegex, escapedToken) ==
            SplitJoin(prefixRegex, escapedToken,
                      <<"(", "?", ":">> \o escapedToken \o <<"|", "\\", "n", ")">>)
        AsciiOnly(prefixRegex) ==
            IF anthropic
            THEN [k \in 1..Len(prefixRegex) |->
                    IF prefixRegex[k] \in NonAscii THEN "." ELSE prefixRegex[k]]
            ELSE prefixRegex
        AnyChar(antiSlopExpr) ==
            IF antiSlopExpr # Null THEN antiSlopExpr ELSE anyCharIncludingNewlineExpr
        Pattern(prefixRegex, anyChar) ==
            IF anthropic
            THEN <<"^", "(", "?", ":">> \o prefixRegex \o <<")">> \o anyChar \o <<"+", "$">>
            ELSE <<"^", "(", "?", ":">> \o prefixRegex \o <<")">> \o anyChar
                 \o <<"{">> \o NumberText(minChars) \o <<",", "}", "$">>
        Fallback(prefixRegex, anyChar) ==
            IF anthropic
            THEN <<"^", "(", "?", ":">> \o prefixRegex \o <<")">> \o anyChar \o <<"+", "$">>
            ELSE <<"^", "(", "?", ":">> \o prefixRegex \o <<")">> \o anyChar
                 \o <<"{">> \o NumberText(minChars) \o <<",", "}", "$">>
        Validated(pattern, prefixRegex, anyChar) ==
            [name |-> "structured_prefill", strict |-> TRUE,
             pattern |-> IF RegExp(pattern).ok THEN pattern ELSE Fallback(prefixRegex, anyChar)]
        Assembled(prefixRegex, anyChar) ==
            Validated(Pattern(prefixRegex, anyChar), prefixRegex, anyChar)
    IN Assembled(AsciiOnly(Either(buildPrefixRegexFromWireTemplate(
                                      rs, encodeNewlines(prefix, newlineToken)),
                                  escapeRegExp(newlineToken)))
                 \o joinSuffixRegex,
                 AnyChar(buildAntiSlopContinuation(banListStr)))

(***************************************************************************)
(* The continuation built from a ban list, matched against a text          *)
(***************************************************************************)
MaxSlopText == 5
SlopAlphabet == {"g", "a", "z", "e"}
BanLists == {<<"g", "a", "z", "e">>,
             <<"G", "a", "z", "e", "\n", " ", "a", "g", " ", "\n", "g", "a", "z", "e">>}

\* The session of a request in the dialect mode, as onGenerateAfterData(Impl)
\* leaves it before the schema is built.
Requesting(mode) ==
    [InitialRuntimeState EXCEPT !.active = TRUE, !.newlineToken = NLToken, !.patternMode = mode]

SlopInit ==
    /\ Loaded
    /\ \E banList \in BanLists, text \in Texts(SlopAlphabet, MaxSlopText),
          mode \in {"default", "anthropic"} :
          call = [fn |-> "buildAntiSlopContinuation", banList |-> banList, text |-> text,
                  mode |-> mode, done |-> FALSE]

\* The schema of an empty prefill with a minimum of one character, so that
\* the pattern is one or more steps between the anchors; then the text is
\* matched against it.
MatchContinuation ==
    /\ call.fn = "buildAntiSlopContinuation" /\ ~call.done
    /\ LET Matched(pattern) ==
               [call EXCEPT !.done = TRUE] @@
               [pattern |-> pattern, accepted |-> Accepts(RegExp(pattern), call.text)]
       IN call' = Matched(buildJsonSchemaForPrefillValuePattern(
                              Requesting(call.mode), call.banList, << >>, 1, << >>).pattern)
    /\ UNCHANGED Session

SlopSpec == SlopInit /\ [][MatchContinuation]_vars

\* The text holds a banned phrase, whatever the case of its letters.
ContainsBanned(banList, text) ==
    \E n \in 1..Len(BanWords(banList)) : Includes(LowerText(text), LowerText(BanWords(banList)[n]))

\* C15: the anchored continuation of one or more ban-list steps rejects every
\* text that holds a banned phrase, wherever the phrase begins.
C15_RejectsBanned ==
    (call.fn = "buildAntiSlopContinuation" /\ call.done /\ ContainsBanned(call.banList, call.text))
        => ~call.accepted

\* C16: the anchored continuation of one or more ban-list steps accepts every
\* non-empty text that holds no banned phrase, also one that ends with the
\* beginning of a banned phrase.
C16_AcceptsUnbanned ==
    (/\ call.fn = "buildAntiSlopContinuation" /\ call.done
     /\ call.text # << >> /\ ~ContainsBanned(call.banList, call.text))
        => call.accepted

(***************************************************************************)
(* The schema assembled for a prefill                                      *)
(***************************************************************************)
Templates ==
    {<<"S", "u", "r", "e", ",", " ">>,
     <<"[", "[", "w", ":", "2", "-", "3", "]", "]", " ", "t", "h", "e", "n">>,
     <<"S", "h", "e", " ", "s", "a", "i", "d", " ", "LDQ", "h", "i", "RDQ", " ">>,
     <<"a", "\n", "b", "[", "[", "n", "a", "m", "e", "]", "]", ":">>,
     <<"[", "[", "r", "e", ":", "(", "]", "]">>,
     <<"[", "[", "r", "e", ":", "a", "{", "2", "}", "]", "]">>,
     <<"[", "[", "r", "e", ":", "\\", "s", "+", "]", "]", " ", "o", "k">>,
     <<"[", "[", "n", "u", "m", ":", "1", "-", "5", "0", "]", "]">>,
     <<"[", "[", "f", "r", "e", "e", "]", "]", " ", "[", "[", "k", "e", "e", "p", "]", "]", "\"", "x", "\"">>}
JoinSuffixes == {<< >>, <<"[", "^", "A", "-", "Z", "]">>,
                 <<"(", "?", ":", "[", "a", "-", "z", "A", "-", "Z", "\\", "-", "\\", "'", "]", ")">>}
SchemaBanLists == {<< >>, <<"g", "a", "z", "e">>, <<"c", "a", "f", "U+">>}
KnownNames == {<< >>, <<<<"A", "l">>, <<"Z", "o", "U+">>>>}
MinChars == {0, 1, 12}

SchemaInit ==
    /\ Loaded
    /\ \E prefix \in Templates, mode \in {"default", "anthropic"}, minChars \in MinChars,
          joinSuffix \in JoinSuffixes, banList \in SchemaBanLists, names \in KnownNames :
          call = [fn |-> "buildJsonSchemaForPrefillValuePattern", prefix |-> prefix,
                  mode |-> mode, minChars |-> minChars, joinSuffix |-> joinSuffix,
                  banList |-> banList, names |-> names, done |-> FALSE]

BuildSchema ==
    /\ call.fn = "buildJsonSchemaForPrefillValuePattern" /\ ~call.done
    /\ LET Built(schema) ==
               [call EXCEPT !.done = TRUE] @@
               [pattern |-> schema.pattern, constructs |-> RegExp(schema.pattern).ok]
       IN call' = Built(buildJsonSchemaForPrefillValuePattern(
                            [Requesting(call.mode) EXCEPT !.knownNames = call.names],
                            call.banList, call.prefix, call.minChars, call.joinSuffix))
    /\ UNCHANGED Session

SchemaSpec == SchemaInit /\ [][BuildSchema]_vars

\* C17: the pattern of the returned constraint always constructs as a
\* matching expression and is anchored at both ends, a pattern that does not
\* construct having been replaced by a minimal one that does.
C17_PatternConstructs ==
    (call.fn = "buildJsonSchemaForPrefillValuePattern" /\ call.done)
        => /\ call.constructs
           /\ Head(call.pattern) = "^" /\ call.pattern[Len(call.pattern)] = "$"

\* What the conservative dialect accepts: no character outside ASCII, no
\* repetition written with braces, no \s and no \S.
DialectLegal(pattern) ==
    /\ \A k \in 1..Len(pattern) : pattern[k] \notin NonAscii
    /\ \A k \in 1..Len(pattern) : ~(pattern[k] = "{" /\ Unescaped(pattern, k, 1))
    /\ \A k \in 1..(Len(pattern) - 1) :
          ~(pattern[k] = "\\" /\ Unescaped(pattern, k, 1) /\ pattern[k + 1] \in {"s", "S"})

\* C18: in the conservative dialect the assembled pattern is legal, whatever
\* the template, the known names and the ban list.
C18_ConservativeLegal ==
    (call.fn = "buildJsonSchemaForPrefillValuePattern" /\ call.done /\ call.mode = "anthropic")
        => DialectLegal(call.pattern)

(***************************************************************************)
(* The pattern of a word-count slot, matched against a text                *)
(***************************************************************************)
MaxWords == 4
Vocabulary == <<<<"g", "o">>, <<"r", "i", "g", "h", "t">>, <<"n", "o", "w", "!">>, <<"\"", "n", "o", "\"", ",">>>>
Separators == {<<" ">>, <<"\t">>, <<" ", " ">>, <<"\n">>, <<",">>}
WordCounts == (0..3) \X (0..3)

\* k words of the vocabulary from the one at first on, sep between them.
Sentence(k, first, sep) ==
    JoinWith([i \in 1..k |-> Vocabulary[((first + i - 2) % Len(Vocabulary)) + 1]], sep)

\* The slot [[w:a-b]], or [[words: a]] when both numbers are the same.
WordSlot(a, b) ==
    IF a = b THEN <<"w", "o", "r", "d", "s", ":", " ">> \o NumberText(a)
    ELSE <<"w", ":">> \o NumberText(a) \o <<"-">> \o NumberText(b)

\* The counts at which the unrolled pattern is taken: around its cap.
CapCounts == {<<1, WordsCap - 1>>, <<WordsCap - 1, WordsCap>>, <<2, WordsCap + 1>>,
              <<WordsCap + 1, 5000>>}
LongTexts == {1, WordsCap - 1, WordsCap, WordsCap + 1, WordsCap + 3}

WordsInit ==
    /\ Loaded
    /\ \/ \E counts \in WordCounts, mode \in {"default", "anthropic"},
             k \in 1..MaxWords, first \in 1..Len(Vocabulary), sep \in Separators :
             call = [fn |-> "buildPlaceholderRegex", a |-> counts[1], b |-> counts[2],
                     mode |-> mode, text |-> Sentence(k, first, sep), done |-> FALSE]
       \/ \E counts \in CapCounts, k \in LongTexts :
             call = [fn |-> "buildWordCountPatternNoRanges", a |-> counts[1], b |-> counts[2],
                     mode |-> "anthropic", text |-> JoinWith([i \in 1..k |-> <<"w">>], <<"_">>),
                     done |-> FALSE]

WordsMatched(pattern) ==
    [call EXCEPT !.done = TRUE] @@
    [pattern |-> pattern, accepted |-> Accepts(RegExp(pattern), call.text)]

\* The pattern of the slot in the dialect of the request, and the text
\* matched against it from end to end.
MatchWordSlot ==
    /\ call.fn = "buildPlaceholderRegex" /\ ~call.done
    /\ call' = WordsMatched(buildPlaceholderRegex(Requesting(call.mode), WordSlot(call.a, call.b)))
    /\ UNCHANGED Session

\* The unrolled pattern for the word w and the separator _ .
MatchUnrolled ==
    /\ call.fn = "buildWordCountPatternNoRanges" /\ ~call.done
    /\ call' = WordsMatched(buildWordCountPatternNoRanges(call.a, call.b, <<"w">>, <<"_">>))
    /\ UNCHANGED Session

WordsSpec == WordsInit /\ [][MatchWordSlot \/ MatchUnrolled]_vars

\* A word token: one or more characters that are no white space, comma, '<'
\* or '>', then any closing punctuation.
ClosingPunctuation == {",", ".", "!", "?", ";", ":", "'", "\"", ")", "]", "}", "~", "-"}

IsWordToken(piece, stops) ==
    LET barred == {k \in 1..Len(piece) : piece[k] \in stops \/ IsWhitespace(piece[k])}
    IN /\ piece # << >>
       /\ barred # {} => /\ MinOf(barred) > 1
                         /\ \A k \in MinOf(barred)..Len(piece) : piece[k] \in ClosingPunctuation

\* The number of word tokens of a text that is word tokens separated by
\* runs of the characters seps, and -1 for any other text.
WordCount(text, seps, Token(_)) ==
    LET gaps == {k \in 1..Len(text) : text[k] \in seps}
        starts == {k \in 1..Len(text) : k \notin gaps /\ (k = 1 \/ (k - 1) \in gaps)}
        End(s) == MinOf({k \in s..Len(text) : k = Len(text) \/ (k + 1) \in gaps})
    IN IF /\ text # << >> /\ 1 \notin gaps /\ Len(text) \notin gaps
          /\ \A s \in starts : Token(SubSeq(text, s, End(s)))
       THEN Cardinality(starts) ELSE -1

\* The bounds of the slot, clamped to 1..2000 and put in order.
SlotMin(a, b) ==
    LET lo == IF a < b THEN a ELSE b
    IN IF lo < 1 THEN 1 ELSE IF lo > 2000 THEN 2000 ELSE lo

SlotMax(a, b) ==
    LET hi == IF a < b THEN b ELSE a
    IN IF hi < 1 THEN 1 ELSE IF hi > 2000 THEN 2000 ELSE hi

\* The number of words of the text matched in the call.
CallWords ==
    LET Word(piece) == IsWordToken(piece, {",", "<", ">"})
        W(piece) == piece = <<"w">>
    IN IF call.fn = "buildPlaceholderRegex" THEN WordCount(call.text, {" ", "\t"}, Word)
       ELSE WordCount(call.text, {"_"}, W)

\* C19: the pattern of a word-count slot accepts exactly the texts of k word
\* tokens separated by spaces or tabs with min <= k <= max; written without
\* ranges it accepts the same texts when max <= 40, and every k >= min when
\* max > 40.
C19_WordCountAccepted ==
    (call.fn \in {"buildPlaceholderRegex", "buildWordCountPatternNoRanges"} /\ call.done)
        => (call.accepted <=>
              /\ CallWords >= SlotMin(call.a, call.b)
              /\ \/ CallWords <= SlotMax(call.a, call.b)
                 \/ call.mode = "anthropic" /\ SlotMax(call.a, call.b) > 40)

\* The pattern of [[w:2-3]] in the default dialect has accepted "go right".
C19_Witness ==
    /\ call.fn = "buildPlaceholderRegex" /\ call.done
    /\ call.a = 2 /\ call.b = 3 /\ call.mode = "default"
    /\ call.text = <<"g", "o", " ", "r", "i", "g", "h", "t">> /\ call.accepted

(***************************************************************************)
(* The pattern of a number slot, matched against a text                    *)
(***************************************************************************)
NumberRanges == {<<1, 30>>, <<1, 31>>, <<1, 32>>, <<31, 1>>, <<0, 29>>, <<-5, 24>>, <<-5, 25>>,
                 <<-5, 40>>, <<10, 1000>>}
NumberValues == {-10, -6, -5, -1, 0, 1, 9, 24, 25, 26, 29, 30, 31, 32, 40, 99, 100, 1000, 1001}
NumberTexts == {NumberText(v) : v \in NumberValues}
                 \cup {<< >>, <<"-">>, <<"0", "7">>, <<"1", "a">>, <<"1", "2", "3", "4", "5">>}

\* The slot [[num:a-b]].
NumberSlot(a, b) == <<"n", "u", "m", ":">> \o NumberText(a) \o <<"-">> \o NumberText(b)

NumberInit ==
    /\ Loaded
    /\ \E range \in NumberRanges, mode \in {"default", "anthropic"}, text \in NumberTexts :
          call = [fn |-> "buildPlaceholderRegex:num", a |-> range[1], b |-> range[2],
                  mode |-> mode, text |-> text, done |-> FALSE]

\* The pattern of the slot in the dialect of the request, and the text
\* matched against it from end to end.
MatchNumberSlot ==
    /\ call.fn = "buildPlaceholderRegex:num" /\ ~call.done
    /\ call' = WordsMatched(buildPlaceholderRegex(Requesting(call.mode), NumberSlot(call.a, call.b)))
    /\ UNCHANGED Session

NumberSpec == NumberInit /\ [][MatchNumberSlot]_vars

\* The number of digits of an integer, without its sign.
DigitCount(v) == Len(NumberText(IF v < 0 THEN 0 - v ELSE v))

\* C20: the pattern of a number slot accepts exactly the integers of the
\* range when the range spans 30 values or fewer; for a longer range it
\* accepts exactly the texts of digits, after a minus sign or not, whose
\* number of digits is between those of the two ends.  (A text with a sign is
\* left open for a range without negative numbers.)
C20_EnumeratedUpTo30 ==
    (call.fn = "buildPlaceholderRegex:num" /\ call.done)
        => LET min == IF call.a < call.b THEN call.a ELSE call.b
               max == IF call.a < call.b THEN call.b ELSE call.a
               signed == call.text # << >> /\ Head(call.text) = "-"
               digits == IF signed THEN Tail(call.text) ELSE call.text
           IN IF max - min + 1 <= 30
              THEN call.accepted <=> \E v \in min..max : call.text = NumberText(v)
              ELSE IF signed /\ min >= 0 THEN TRUE
              ELSE call.accepted <=> /\ IsDigits(digits)
                                     /\ DigitCount(min) <= Len(digits)
                                     /\ Len(digits) <= DigitCount(max)

(***************************************************************************)
(* The stream guard over the life of sessions: generations start, guard    *)
(* ticks see texts that grow and shrink, and the host finalizes messages   *)
(***************************************************************************)
LifeTexts == {Rep(Padding, 130 * n) : n \in 0..2} \cup {Rep(Prose, 130)}

LifeRawLens == {PaddingRawLen, PaddingRawLen + 1}

LifeTimes == {1 + PaddingSinceStart, 2 + PaddingSinceStart, 3 + PaddingSinceStart}

LifeTick ==
    /\ runtimeState.streamGuard.suspiciousStreak < MaxStreak
    /\ \E rawLen \in LifeRawLens, decodedFullText \in LifeTexts, button \in BOOLEAN :
          Commit(GuardTickOn(Begin(TRUE), rawLen, decodedFullText, button))
    /\ UNCHANGED <<pending, budget>>

LifeClock == runtimeState.active /\ AdvanceClock(LifeTimes)

GuardLifeNext ==
    \/ GuardStart
    \/ LifeTick
    \/ LifeClock
    \/ MessageReceived

GuardLifeSpec == Init /\ [][GuardLifeNext]_vars

\* C21 as stated: a guard tick lowers none of lastRawLen, lastDecodedLen,
\* lastProgressAt and suspiciousStreak, and the guard state changes otherwise
\* only by the reset at a generation start.
C21_AsStated ==
    [][runtimeState'.streamGuard # runtimeState.streamGuard
         => IF history'.tick.live
            THEN /\ runtimeState'.streamGuard.lastRawLen >= runtimeState.streamGuard.lastRawLen
                 /\ runtimeState'.streamGuard.lastDecodedLen
                       >= runtimeState.streamGuard.lastDecodedLen
                 /\ runtimeState'.streamGuard.lastProgressAt
                       >= runtimeState.streamGuard.lastProgressAt
                 /\ runtimeState'.streamGuard.suspiciousStreak
                       >= runtimeState.streamGuard.suspiciousStreak
            ELSE /\ history'.tore = "no"
                 /\ runtimeState'.streamGuard = resetStreamGuard(now')]_vars

\* C21, amended: a guard tick lowers neither lastRawLen nor lastProgressAt and
\* keeps startedAt, and the guard state changes otherwise only by a reset (at
\* a generation start or when the session is torn down).
C21_RawAndProgressGrow ==
    [][runtimeState'.streamGuard # runtimeState.streamGuard
         => IF history'.tick.live
            THEN /\ runtimeState'.streamGuard.lastRawLen >= runtimeState.streamGuard.lastRawLen
                 /\ runtimeState'.streamGuard.lastProgressAt
                       >= runtimeState.streamGuard.lastProgressAt
                 /\ runtimeState'.streamGuard.startedAt = runtimeState.streamGuard.startedAt
            ELSE runtimeState'.streamGuard = resetStreamGuard(now')]_vars

\* A guard tick has seen a shorter raw text than the one before it, later
\* than the last progress, and has kept both values.
C21_Witness ==
    /\ history.tick.live
    /\ history.tick.rawLen < runtimeState.streamGuard.lastRawLen
    /\ runtimeState.streamGuard.lastProgressAt < now
    /\ runtimeState.streamGuard.lastProgressAt > runtimeState.streamGuard.startedAt

(***************************************************************************)
(* The streak of the stream guard: a decoded text arrives, then the guard  *)
(* tick of the render pass sees it                                         *)
(***************************************************************************)
StreakTexts == LifeTexts \cup {Rep(Prose, 260)}

StreakArrive ==
    /\ runtimeState.active
    /\ microtasks = << >>
    /\ \E rawLen \in LifeRawLens, decodedFullText \in StreakTexts :
          call' = [fn |-> "maybeAbortOnStreamLoop", rawLen |-> rawLen,
                   decodedFullText |-> decodedFullText]
    /\ history' = Begin(TRUE).h
    /\ UNCHANGED <<runtimeState, settings, chat, microtasks, frames, timers, pending, now,
                   signals, budget>>

StreakTick ==
    /\ call.fn = "maybeAbortOnStreamLoop"
    /\ runtimeState.streamGuard.suspiciousStreak < MaxStreak
    /\ \E button \in BOOLEAN :
          Commit(GuardTickOn(Begin(TRUE), call.rawLen, call.decodedFullText, button))
    /\ UNCHANGED <<pending, budget>>

StreakNext ==
    \/ GuardStart
    \/ StreakArrive
    \/ StreakTick
    \/ LifeClock

StreakSpec == Init /\ [][StreakNext]_vars

ContinueTailContent(w, prefillTemplate) ==
    LET Content(baseText, looksLikeBase, split) ==
            IF baseText = << >> THEN prefillTemplate
            ELSE IF prefillTemplate # << >> /\ ~looksLikeBase /\ ~split.baseFound
            THEN prefillTemplate
            ELSE IF ~looksLikeBase THEN baseText
            ELSE IF split.baseFound /\ split.pmPrefix # << >> THEN baseText
            ELSE prefillTemplate
        Probe(baseText, baseCanon, tailCanon, baseProbe, tailProbe) ==
            Content(baseText,
                    /\ baseText # << >>
                    /\ \/ baseProbe # << >> /\ StartsWith(tailCanon, baseProbe)
                       \/ tailProbe # << >> /\ StartsWith(baseCanon, tailProbe),
                    splitContinuePmPrefixFromTail(prefillTemplate, baseText))
        Canon(baseText, baseCanon, tailCanon) ==
            Probe(baseText, baseCanon, tailCanon,
                  SubSeq(baseCanon, 1, Min2(60, Len(baseCanon))),
                  SubSeq(tailCanon, 1, Min2(60, Len(tailCanon))))
        At(messageId) ==
            Canon(IF messageId >= 0 THEN Msg(w, messageId).mes ELSE << >>,
                  canonicalizeForContinueMatch(
                      IF messageId >= 0 THEN Msg(w, messageId).mes ELSE << >>),
                  canonicalizeForContinueMatch(prefillTemplate))
    IN At(getLastAssistantMessageId(w))

\* The messages with trailing system messages popped and a last assistant
\* message relabelled as user (src/index.js:2404-2416).
RelabelForAnthropic(messages) ==
    LET keep == {k \in 1..Len(messages) :
                   k = 1 \/ \E j \in k..Len(messages) : messages[j].role # "system"}
        Cut(n) == [k \in 1..n |->
                     IF k = n /\ messages[k].role = "assistant"
                     THEN [messages[k] EXCEPT !.role = "user"] ELSE messages[k]]
    IN IF messages = << >> THEN messages ELSE Cut(MaxOf(keep))

\* The messages of the request when the handler returns; a request waiting
\* for the prefill generator still has its prefill message.
OutgoingMessages(w, generateData) ==
    LET messages == generateData.messages
        mode == getPatternModeForRequest(generateData.chat_completion_source,
                                         generateData.model)
        Branch(named, tailIndex, tailContent) ==
            IF generateData.type = "continue"
            THEN (LET kept == [named EXCEPT ![tailIndex + 1].content =
                                                ContinueTailContent(w, tailContent)]
                      bailed ==
                          ~StartGenerationOn(w, generateData).w.rs.continue.active
                  IN IF bailed THEN named
                     ELSE IF mode = "anthropic" THEN RelabelForAnthropic(kept) ELSE kept)
            ELSE IF templateHasPrefillGenSlot(tailContent) /\ w.settings.prefill_gen_enabled
            THEN named
            ELSE RemoveAt(named, tailIndex)
        WithTail(tailIndex) ==
            IF tailIndex < 0 THEN messages
            ELSE IF messages[tailIndex + 1].role # "assistant" THEN messages
            ELSE IF messages[tailIndex + 1].content = << >> THEN messages
            ELSE Branch([messages EXCEPT ![tailIndex + 1].content =
                                             StripNamePrefix(generateData.names, @)],
                        tailIndex,
                        StripNamePrefix(generateData.names, messages[tailIndex + 1].content))
    IN IF ~w.settings.enabled THEN messages
       ELSE IF ~supportsStructuredPrefillForSource(generateData.chat_completion_source)
       THEN messages
       ELSE IF generateData.json_schema \/ generateData.tools THEN messages
       ELSE IF generateData.type \in {"impersonate", "quiet"} THEN messages
       ELSE IF messages = << >> THEN messages
       ELSE WithTail(TailIndex(messages, Len(messages)))

Bob == <<"B", "o", "b">>

RequestInputs ==
    Requests \cup
    {[Request("continue", <<Turn("user", <<"q">>),
                            Turn("assistant", Bob \o <<":", " ", "z", "z">>)>>)
        EXCEPT !.names = <<Bob>>],
     [Request("normal", <<Turn("user", <<"q">>), Turn("assistant", Hi),
                          Turn("system", <<"s">>)>>)
        EXCEPT !.chat_completion_source = "openrouter", !.model = "claude"],
     [Request("continue", <<Turn("user", <<"q">>), Turn("assistant", Hi),
                            Turn("system", <<"s">>)>>)
        EXCEPT !.chat_completion_source = "openrouter", !.model = "claude"],
     [Request("normal", <<Turn("user", <<"q">>), Turn("assistant", Hi)>>)
        EXCEPT !.tools = TRUE],
     [Request("normal", <<Turn("user", <<"q">>)>>) EXCEPT !.names = <<Bob>>]}

RequestArrive ==
    /\ HostEvent
    /\ ~pending.waiting
    /\ \E generateData \in RequestInputs :
          call' = [fn |-> "onChatCompletionSettingsReady", generateData |-> generateData]
    /\ history' = Begin(TRUE).h
    /\ UNCHANGED <<runtimeState, settings, chat, microtasks, frames, timers, pending, now,
                   signals, budget>>

RequestStart ==
    /\ HostEvent
    /\ ~pending.waiting
    /\ call.fn = "onChatCompletionSettingsReady"
    /\ LET r == StartGenerationOn(Begin(TRUE), call.generateData)
       IN Commit(r.w) /\ pending' = r.pending
    /\ budget' = budget - 1

RequestClock == AdvanceClock({2, 3})

RequestNext ==
    \/ RequestArrive
    \/ RequestStart
    \/ ResumeStart
    \/ RequestClock

RequestSpec == Init /\ [][RequestNext]_vars

\* The step is the handler running on the request that arrived.
Handled == call.fn = "onChatCompletionSettingsReady" /\ budget' < budget

\* The step is the handler resuming after the prefill generator, where it
\* removes the prefill message.
Resumed == pending.waiting /\ ~pending'.waiting

\* C23: when the handler has removed the prefill message or rewritten the
\* content or the role of the tail message, it has attached the constraint
\* and the session is active.
C23_RewrittenThenConstrained ==
    [][\/ Handled /\ OutgoingMessages(World, call.generateData) # call.generateData.messages
       \/ Resumed
       => history'.activated /\ runtimeState'.active]_vars

(***************************************************************************)
(* Sessions one after another: what a session has received is kept beside  *)
(* the chat as it was when the session started                             *)
(***************************************************************************)
CommitWith(w, c) ==
    /\ runtimeState' = w.rs
    /\ chat' = w.chat
    /\ microtasks' = w.microtasks
    /\ frames' = w.frames
    /\ timers' = w.timers
    /\ signals' = w.signals
    /\ history' = w.h
    /\ call' = c
    /\ UNCHANGED <<settings, now>>

CarryStart ==
    /\ HostEvent
    /\ ~runtimeState.active
    /\ LET generateData == Request("normal", <<Turn("user", <<"q">>), Turn("assistant", Hi)>>)
       IN CommitWith(StartGenerationOn(Begin(TRUE), generateData).w,
                     [fn |-> "onChatCompletionSettingsReady", chat |-> chat, received |-> {}])
    /\ budget' = budget - 1
    /\ UNCHANGED pending

CarryToken ==
    /\ microtasks = << >>
    /\ runtimeState.active
    /\ call.fn = "onChatCompletionSettingsReady"
    /\ \E rawText \in Payloads :
          CommitWith(scheduleStreamUnwrap(Begin(TRUE), rawText),
                     [call EXCEPT !.received = @ \cup {rawText}])
    /\ UNCHANGED <<pending, budget>>

CarryNext ==
    \/ CarryStart
    \/ CarryToken
    \/ RunMicrotask
    \/ AnimationFrame
    \/ HostAppendMessage
    \/ MessageReceived

CarrySpec == Init /\ [][CarryNext]_vars

\* The texts a session may write into message id: what it has received, raw
\* or decoded, the content the message had when the session started, the
\* content of the chat's last message then (the seed of lastAppliedText,
\* src/index.js:2459-2466), or nothing.
SessionTexts(id) ==
    LET start == call.chat
        decoded == {tryUnwrapStructuredOutput(runtimeState, raw) : raw \in call.received}
        own == IF id + 1 <= Len(start) THEN {start[id + 1].mes} ELSE {}
        seed == IF start # << >> /\ IsAssistant(start[Len(start)])
                THEN {start[Len(start)].mes} ELSE {}
    IN call.received \cup (decoded \ {Null}) \cup own \cup seed \cup {<< >>}

\* C24: every text written into a message during a session comes from that
\* session's payloads and state or is the message's own content at the start
\* of the session; nothing decoded in an earlier session is written.
C24_OwnSessionOnly ==
    call.fn = "onChatCompletionSettingsReady"
    => \A wr \in history.wrote : chat[wr.id + 1].mes \in SessionTexts(wr.id)

(***************************************************************************)
(* Streaming: the decoded text of every cumulative prefix of a payload     *)
(***************************************************************************)
MaxPieces == 3

\* What a well-formed value is made of on the wire: a letter, the newline
\* token, an escaped quote, an escaped line feed.
WirePieces == {<<"a">>, NLToken, <<"\\", "\"">>, <<"\\", "n">>}

RECURSIVE WireBodies(_)
WireBodies(n) ==
    IF n = 0 THEN {<< >>}
    ELSE WireBodies(n - 1) \cup {body \o piece : body \in WireBodies(n - 1), piece \in WirePieces}

\* The session a normal generation with the prefill Hi has started.
StreamSession ==
    StartGenerationOn(
        [rs |-> InitialRuntimeState, chat |-> << >>, microtasks |-> << >>, frames |-> << >>,
         timers |-> {}, signals |-> NoSignals, now |-> 1,
         settings |-> [enabled |-> TRUE, hide_prefill_in_display |-> FALSE,
                       prefill_gen_enabled |-> TRUE, newline_token |-> NLToken,
                       continue_overlap_chars |-> 14],
         h |-> InitialHistory],
        Request("normal", <<Turn("user", <<"q">>), Turn("assistant", Hi)>>)).w

StreamInit ==
    /\ runtimeState = StreamSession.rs
    /\ settings = StreamSession.settings
    /\ chat = << >>
    /\ microtasks = << >>
    /\ frames = << >>
    /\ timers = {}
    /\ pending = NoPending
    /\ now = 1
    /\ signals = NoSignals
    /\ budget = 0
    /\ history = StreamSession.h
    /\ call \in {[fn |-> "stream", payload |-> ValueOpen \o body \o Quote \o <<"}">>,
                  cut |-> 0, unwrapped |-> Null] : body \in WireBodies(MaxPieces)}

StreamPrefix ==
    /\ call.fn = "stream"
    /\ call.cut < Len(call.payload)
    /\ call' = [call EXCEPT
                  !.cut = @ + 1,
                  !.unwrapped = tryUnwrapStructuredOutput(
                                    runtimeState, SubSeq(call.payload, 1, call.cut + 1))]
    /\ UNCHANGED Session

StreamSpec == StreamInit /\ [][StreamPrefix]_vars

\* C25: whatever is decoded from a cumulative prefix of a well-formed
\* payload is a prefix of what is decoded from the whole payload.
C25_PrefixStable ==
    call.fn = "stream" /\ call.unwrapped # Null
    => StartsWith(tryUnwrapStructuredOutput(runtimeState, call.payload), call.unwrapped)

\* The runtime state a session works with.
SessionState(rs) ==
    [patternMode |-> rs.patternMode, knownNames |-> rs.knownNames,
     streamGuard |-> rs.streamGuard, hidePrefillLiteral |-> rs.hidePrefillLiteral,
     hidePrefillRegex |-> rs.hidePrefillRegex, continue |-> rs.continue,
     trackedSwipeId |-> rs.trackedSwipeId]

\* C26: a request the handler has returned from without attaching a
\* constraint leaves the runtime state of a session that is still active as
\* it was.
C26_NotActivatedUnchanged ==
    [][/\ Handled
       /\ ~pending'.waiting
       /\ ~history'.activated
       /\ runtimeState.active
       => SessionState(runtimeState') = SessionState(runtimeState)]_vars

(***************************************************************************)
(* Applies of every kind: chunks, render passes, the message finalized,    *)
(* the stop cleanup, on messages that hold text and on a fresh blank one   *)
(***************************************************************************)
ApplyNext ==
    \/ StopNext
    \/ HostAppendMessage

ApplySpec == Init /\ [][ApplyNext]_vars

QuiesceNext ==
    \/ StartGeneration
    \/ ResumeStart
    \/ StreamToken
    \/ GenerationStopped
    \/ MessageReceived
    \/ RunMicrotask
    \/ AnimationFrame
    \/ TimerFire

QuiesceSpec == Init /\ [][QuiesceNext]_vars

\* C28: an inactive session is not stopping, has no stop-cleanup timer
\* pending and no observer connected, its continuation state is inactive and
\* it tracks no swipe.
C28_InactiveIsQuiescent ==
    ~runtimeState.active =>
        /\ ~runtimeState.stopping
        /\ timers = {}
        /\ ~runtimeState.streamObserver
        /\ runtimeState.observedMessageId = -1
        /\ ~runtimeState.continue.active
        /\ runtimeState.trackedSwipeId = -1

\* The message has been finalized on a session that had been stopped: the
\* teardown found a timer pending, an observer connected and a swipe tracked.
C28_Witness ==
    /\ history.tore = "received"
    /\ ~runtimeState.active
    /\ runtimeState.stopSessionAt # 0
    /\ runtimeState.stopCleanupTimer = NoTimer

(***************************************************************************)
(* The slots of a template, as each recognizer sees them                   *)
(***************************************************************************)
MaxTemplate == 6

\* The spans (first and last position) the pattern compiler compiles as
\* slots, with positions counted from offset.
RECURSIVE CompiledSpans(_, _)
CompiledSpans(template, offset) ==
    LET Rest(slot) ==
            IF slot.open = 0 THEN {}
            ELSE {<<offset + slot.open, offset + slot.close + 1>>}
                 \cup CompiledSpans(SubSeq(template, slot.close + 2, Len(template)),
                                    offset + slot.close + 1)
    IN Rest(CompiledSlot(template))

\* The spans the curly-quote substitution copies unchanged, from position i.
RECURSIVE SkippedSpans(_, _)
SkippedSpans(s, i) ==
    IF i > Len(s) THEN {}
    ELSE IF SlotEndAt(s, i) # 0
    THEN {<<i, SlotEndAt(s, i) - 1>>} \cup SkippedSpans(s, SlotEndAt(s, i))
    ELSE SkippedSpans(s, i + 1)

SlotTemplates ==
    Texts({"[", "]", "a", "\n"}, MaxTemplate)
    \cup {<<"[", "[", "r", "e", ":", "[", "a", "-", "z", "]", "+", "]", "]">>,
          <<"\"", "[", "[", "w", ":", "2", "]", "]", "\"">>}

SlotsInit ==
    /\ Loaded
    /\ call \in {[fn |-> "slots", template |-> template, done |-> FALSE,
                  compiled |-> {}, skipped |-> {}, hasSlots |-> FALSE] :
                    template \in SlotTemplates}

RecognizeSlots ==
    /\ call.fn = "slots" /\ ~call.done
    /\ call' = [call EXCEPT !.done = TRUE,
                            !.compiled = CompiledSpans(call.template, 0),
                            !.skipped = SkippedSpans(call.template, 1),
                            !.hasSlots = prefixHasSlots(call.template)]
    /\ UNCHANGED Session

SlotsSpec == SlotsInit /\ [][RecognizeSlots]_vars

\* C29: the spans compiled as slots are the spans the curly-quote
\* substitution skips, and the compiler finds a slot exactly when the
\* has-slots test answers true.
C29_RecognizersAgree ==
    call.fn = "slots" /\ call.done
    => /\ call.compiled = call.skipped
       /\ call.compiled # {} <=> call.hasSlots

(***************************************************************************)
(* The newline token chosen for a prefix                                   *)
(***************************************************************************)
RECURSIVE NLRun(_)
NLRun(S) ==
    IF S = {} THEN << >>
    ELSE NLRun(S \ {MaxOf(S)}) \o <<"<", "N", "L">> \o Digits(MaxOf(S)) \o <<">">>

\* Which of the fallbacks <NL2>..<NL25> a prefix holds.
FallbackRuns == {{}, {2}, 2..3, 2..24, 2..25, (2..25) \ {3}}

TokenPrefixes ==
    {NLRun(run) \o symbol \o first \o second \o tail :
        run \in FallbackRuns,
        symbol \in {<< >>, UnicodeFallback},
        first \in {<< >>, NLToken},
        second \in {<< >>, <<"|", "|">>},
        tail \in {<< >>, <<"a", "\r", "\n", "b">>}}

TokenSettings ==
    {NLToken, <<"|", "|">>, <<" ", "|", "|", " ">>, << >>, <<" ", " ">>, <<"\n">>,
     <<"a", "\n", "b">>}

TokenInit ==
    /\ Loaded
    /\ call \in {[fn |-> "chooseNewlineToken", prefix |-> prefix, preferredToken |-> preferred,
                  done |-> FALSE, token |-> << >>] :
                    prefix \in TokenPrefixes, preferred \in TokenSettings}

ChooseToken ==
    /\ call.fn = "chooseNewlineToken" /\ ~call.done
    /\ call' = [call EXCEPT !.done = TRUE,
                            !.token = chooseNewlineToken(call.prefix, call.preferredToken)]
    /\ UNCHANGED Session

TokenSpec == TokenInit /\ [][ChooseToken]_vars

\* The preferred token as the function takes it: trimmed, and <NL> when
\* nothing is left or a line break is in it.
PreferredToken ==
    IF Trim(call.preferredToken) = << >>
       \/ \E k \in 1..Len(Trim(call.preferredToken)) : Trim(call.preferredToken)[k] \in {"\r", "\n"}
    THEN NLToken ELSE Trim(call.preferredToken)

\* C30: the chosen token is not empty and holds no carriage return or line
\* feed, and it occurs in the normalized prefix only if the preferred token,
\* every fallback <NL2>..<NL25> and the unicode fallback occur there.
C30_FreshToken ==
    call.fn = "chooseNewlineToken" /\ call.done
    => /\ call.token # << >>
       /\ \A k \in 1..Len(call.token) : call.token[k] \notin {"\r", "\n"}
       /\ Includes(normalizeNewlines(call.prefix), call.token)
          => /\ Includes(normalizeNewlines(call.prefix), PreferredToken)
             /\ \A i \in 2..25 : Includes(normalizeNewlines(call.prefix), NLRun({i}))
             /\ Includes(normalizeNewlines(call.prefix), UnicodeFallback)

\* Everything occurs in the prefix, and the token chosen is one of the
\* prefix's own texts.
C30_Witness ==
    /\ call.fn = "chooseNewlineToken" /\ call.done
    /\ Includes(normalizeNewlines(call.prefix), call.token)
    /\ call.preferredToken = <<" ", "|", "|", " ">>
    /\ call.token = <<"|", "|">>

====
